---- MODULE Spec2Model ----
(***************************************************************************)
(* Model of the Aerospike Terraform provider (internal/provider): the role *)
(* and user reconcilers, the namespace and service configuration           *)
(* resources, the info-command helpers and the provider's Configure.  The  *)
(* Terraform state of each resource, the Aerospike server's side of it,    *)
(* and the calls each handler issues are the state; every handler is one   *)
(* action.                                                                 *)
(***************************************************************************)
EXTENDS Integers, Sequences, FiniteSets, TLC

VARIABLES roleState,   \* Terraform state of the aerospike_role resource
          srvRole,     \* the server's copy of the role
          userState,   \* Terraform state of the aerospike_user resource
          srvUser,     \* the server's copy of the user
          nsState,     \* Terraform state of the aerospike_config_namespace resource
          svcState,    \* Terraform state of the aerospike_config_service resource
          cluster,     \* the server's build and its runtime configuration
          conn,        \* the connection handle the provider gave the resources
          last         \* the last handler run: its plan, calls and outcome

vars == <<roleState, srvRole, userState, srvUser, nsState, svcState, cluster, conn, last>>

(***************************************************************************)
(* Bounds                                                                  *)
(***************************************************************************)
MaxPrivs == 2        \* privileges in one declared role
MaxRoles == 2        \* roles in one declared user

(***************************************************************************)
(* Terraform framework values: a value is null or known.                   *)
(***************************************************************************)
StringNull == [isNull |-> TRUE, value |-> ""]
StringValue(s) == [isNull |-> FALSE, value |-> s]
Int64Null == [isNull |-> TRUE, value |-> <<0, 0, 0, 0>>]
Int64Value(n) == [isNull |-> FALSE, value |-> n]
\* a set or list attribute: null, or its elements in the order held
SetNull == [isNull |-> TRUE, elems |-> <<>>]
SetValue(s) == [isNull |-> FALSE, elems |-> s]

ValueString(x) == x.value
ValueInt64(x) == x.value

SeqToSet(s) == {s[i] : i \in 1..Len(s)}

\* sequences over S of length at most n, and those without repetition
SeqsUpTo(S, n) == UNION {[1..k -> S] : k \in 0..n}

\* every ordering of a finite set
Orderings(S) == {s \in [1..Cardinality(S) -> S] : SeqToSet(s) = S}

RECURSIVE SelectNotIn(_, _)
\* the elements of s, in order, that are not in the set T
SelectNotIn(s, T) ==
    IF s = <<>> THEN <<>>
    ELSE IF Head(s) \in T THEN SelectNotIn(Tail(s), T)
         ELSE <<Head(s)>> \o SelectNotIn(Tail(s), T)

RECURSIVE MapSeq(_, _)
MapSeq(F(_), s) == IF s = <<>> THEN <<>> ELSE <<F(Head(s))>> \o MapSeq(F, Tail(s))

\* A Go int64 is held as its four 16-bit words, least significant first
\* (two's complement); a uint32 as its two words.
Int64Of(n) == <<n % 65536, (n \div 65536) % 65536, IF n < 0 THEN 65535 ELSE 0, IF n < 0 THEN 65535 ELSE 0>>
\* uint32(x) of an int64, and int64(u) of a uint32
Uint32(x) == <<x[1], x[2]>>
Int64FromUint32(u) == <<u[1], u[2], 0, 0>>
Uint32Zero == <<0, 0>>

(***************************************************************************)
(* Privileges                                                              *)
(***************************************************************************)
RoleName == "testrole1"
UserName == "testuser1"

\* the schema's OneOf validator for "privilege"
PrivilegeNames == {"user-admin", "sys-admin", "data-admin", "udf-admin", "sindex-admin",
                   "read-write-udf", "read-write", "read", "write", "truncate"}

\* the client's privilege codes, by the name of their Go constant
privUnset == "zero-value"

asPrivFromStringValuesNoReadWrite(priv, namespace, set) ==
    LET n == ValueString(namespace)
        s == ValueString(set)
        code == CASE ValueString(priv) = "user-admin" -> "UserAdmin"
                  [] ValueString(priv) = "sys-admin" -> "SysAdmin"
                  [] ValueString(priv) = "data-admin" -> "DataAdmin"
                  [] ValueString(priv) = "udf-admin" -> "UDFAdmin"
                  [] ValueString(priv) = "sindex-admin" -> "SIndexAdmin"
                  [] ValueString(priv) = "read-write-udf" -> "ReadWriteUDF"
                  [] ValueString(priv) = "read" -> "Read"
                  [] ValueString(priv) = "write" -> "Write"
                  [] ValueString(priv) = "truncate" -> "Truncate"
                  [] OTHER -> privUnset
    IN IF code = privUnset
       THEN [Code |-> privUnset, Namespace |-> "", SetName |-> ""]
       ELSE [Code |-> code, Namespace |-> n, SetName |-> s]

asPrivFromStringValues(priv, namespace, set) ==
    LET n == ValueString(namespace)
        s == ValueString(set)
        code == CASE ValueString(priv) = "user-admin" -> "UserAdmin"
                  [] ValueString(priv) = "sys-admin" -> "SysAdmin"
                  [] ValueString(priv) = "data-admin" -> "DataAdmin"
                  [] ValueString(priv) = "udf-admin" -> "UDFAdmin"
                  [] ValueString(priv) = "sindex-admin" -> "SIndexAdmin"
                  [] ValueString(priv) = "read-write-udf" -> "ReadWriteUDF"
                  [] ValueString(priv) = "read" -> "Read"
                  [] ValueString(priv) = "write" -> "Write"
                  [] ValueString(priv) = "read-write" -> "ReadWrite"
                  [] ValueString(priv) = "truncate" -> "Truncate"
                  [] OTHER -> privUnset
    IN IF code = privUnset
       THEN [Code |-> privUnset, Namespace |-> "", SetName |-> ""]
       ELSE [Code |-> code, Namespace |-> n, SetName |-> s]

asPrivToStringValues(priv) ==
    LET code == CASE priv.Code = "UserAdmin" -> "user-admin"
                  [] priv.Code = "SysAdmin" -> "sys-admin"
                  [] priv.Code = "DataAdmin" -> "data-admin"
                  [] priv.Code = "UDFAdmin" -> "udf-admin"
                  [] priv.Code = "SIndexAdmin" -> "sindex-admin"
                  [] priv.Code = "ReadWriteUDF" -> "read-write-udf"
                  [] priv.Code = "Read" -> "read"
                  [] priv.Code = "Write" -> "write"
                  [] priv.Code = "ReadWrite" -> "read-write"
                  [] priv.Code = "Truncate" -> "truncate"
                  [] OTHER -> ""
        namespace == IF priv.Namespace = "" THEN StringNull ELSE StringValue(priv.Namespace)
        set == IF priv.SetName = "" THEN StringNull ELSE StringValue(priv.SetName)
    IN [privilege |-> StringValue(code), namespace |-> namespace, set |-> set]

\* AerospikeRolePrivilegeModel of one element of the privileges set
asPrivOfModel(p) == asPrivFromStringValues(p.privilege, p.namespace, p.set)

(***************************************************************************)
(* Declared inputs                                                         *)
(***************************************************************************)
\* one element of the privileges set attribute
PrivModel(priv, namespace, set) == [privilege |-> StringValue(priv), namespace |-> namespace, set |-> set]

RoleModel(name, privs, wl, rq, wq) ==
    [Role_name |-> name, Privileges |-> privs, White_list |-> wl,
     Read_quota |-> rq, Write_quota |-> wq]

RolePlansOver(privSeqs) ==
    {RoleModel(StringValue(RoleName), SetValue(ps), wl, Int64Value(Int64Of(q[1])), Int64Value(Int64Of(q[2]))) :
        ps \in privSeqs, wl \in ({SetValue(<<StringValue("1.1.1.1")>>),
                SetValue(<<StringValue("2.2.2.2")>>)}), q \in ({<<0, 0>>, <<5, 7>>})}

RolePlans == RolePlansOver(({s \in SeqsUpTo((({PrivModel("read", StringNull, StringNull),
        PrivModel("write", StringValue("aerospike"), StringValue("test")), PrivModel("read-write",
        StringValue("missing"), StringNull)})), MaxPrivs) : \A i, j \in 1..Len(s) : s[i] = s[j] => i = j}))

\* the strings the model sorts, in Go's string order
StringOrder == <<"", "role1", "role2", "role3">>
StringRank(x) == CHOOSE i \in 1..Len(StringOrder) : StringOrder[i] = x

(***************************************************************************)
(* Terraform state and server objects                                      *)
(***************************************************************************)
RoleModelNull == RoleModel(StringNull, SetNull, SetNull, Int64Null, Int64Null)
\* no resource recorded
NoRoleState == [present |-> FALSE, data |-> RoleModelNull]
RoleStateOf(data) == [present |-> TRUE, data |-> data]

NoSrvRole == [exists |-> FALSE, Privileges |-> {}, Whitelist |-> <<>>, ReadQuota |-> Uint32Zero,
        WriteQuota |-> Uint32Zero]

UserModel(name, password, roles) == [User_name |-> name, Password |-> password, Roles |-> roles]
UserModelNull == UserModel(StringNull, StringNull, SetNull)
NoUserState == [present |-> FALSE, data |-> UserModelNull]
UserStateOf(data) == [present |-> TRUE, data |-> data]

NoSrvUser == [exists |-> FALSE, password |-> "", roles |-> <<>>]
SrvUserOf(password, roles) == [exists |-> TRUE, password |-> password, roles |-> roles]

\* a handler run: what it was given, what it sent, how it ended
NoModel == [none |-> TRUE]
\* a call sent to the server, and the error the client got back ("OK" for none)
Call(fn, name, arg) == [fn |-> fn, name |-> name, arg |-> arg, err |-> "OK"]
Answered(call, resp) == [call EXCEPT !.err = IF resp = "TIMEOUT_LATE" THEN "TIMEOUT" ELSE resp]
Run(op, prior, plan, calls, outcome, summary) ==
    [op |-> op, prior |-> prior, plan |-> plan, calls |-> calls, outcome |-> outcome, diag |-> summary,
     lookups |-> <<>>, result |-> NoModel]
\* the same run, with the dummy-key lookups it made before its calls
WithLookups(run, lookups) == [run EXCEPT !.lookups = lookups]
\* the same run, with the value the function returned
WithResult(run, result) == [run EXCEPT !.result = result]

CallsOf(fn) == {i \in 1..Len(last.calls) : last.calls[i].fn = fn}

\* the server of the acceptance environment (AEROSPIKE_LOCAL_VERSION), with
\* no runtime setting changed yet
AcceptanceBuild == <<"6", ".", "2", ".", "0", ".", "7">>
ClusterOf(build, settings) == [build |-> build, settings |-> settings]

\* the provider before Configure: no connection handle
NoConn == [open |-> FALSE, host |-> "", port |-> 0, user |-> "", password |-> ""]
NoConfigState == [present |-> FALSE, data |-> NoModel]
ConfigStateOf(data) == [present |-> TRUE, data |-> data]

InitWith(build) ==
    /\ roleState = NoRoleState
    /\ srvRole = NoSrvRole
    /\ userState = NoUserState
    /\ srvUser = NoSrvUser
    /\ nsState = NoConfigState
    /\ svcState = NoConfigState
    /\ cluster = ClusterOf(build, {})
    /\ conn = NoConn
    /\ last = Run("none", NoModel, NoModel, <<>>, "ok", "")

Init == InitWith(AcceptanceBuild)

(***************************************************************************)
(* The server's answers.  A request that times out may have been lost      *)
(* ("TIMEOUT") or applied with the reply lost ("TIMEOUT_LATE"); the client *)
(* sees the same error for both.                                           *)
(***************************************************************************)
ErrorOf(resp) == IF resp = "TIMEOUT_LATE" THEN "TIMEOUT" ELSE resp
Applied(resp) == resp \in {"OK", "TIMEOUT_LATE"}

\* result code of the dummy-key Get; "OK" when the namespace holds a record
\* under the dummy key, and the Get returns the nil error
GetErrors(namespace) ==
    IF namespace \in ({"aerospike"}) THEN {"KEY_NOT_FOUND_ERROR", "TIMEOUT", "OK"} ELSE {"INVALID_NAMESPACE"}

RoleAdminResponses(srv) == IF srv.exists THEN {"OK", "TIMEOUT"} ELSE {"INVALID_ROLE"}

(***************************************************************************)
(* Role reconciler                                                         *)
(***************************************************************************)
namespaceExistsBlind(err) == TRUE
\* AerospikeRole.namespaceExists, given the error the Get returned
namespaceExists(err) == err # "INVALID_NAMESPACE"
\* err.Matches on the nil error dereferences a nil interface
namespaceExistsPanics(err) == err = "OK"

Lookup(namespace, err) == [namespace |-> namespace, err |-> err]

\* the privileges loop of Create and Update: one lookup for each privilege
\* that names a namespace, in the order of the elements, up to the first
\* lookup that ends the handler
RECURSIVE namespaceLookups(_)
namespaceLookups(elems) ==
    IF elems = <<>> THEN {<<>>}
    ELSE LET p == Head(elems)
         IN IF p.namespace.isNull THEN namespaceLookups(Tail(elems))
            ELSE UNION {IF namespaceExistsPanics(err) \/ ~namespaceExists(err)
                        THEN {<<Lookup(ValueString(p.namespace), err)>>}
                        ELSE {<<Lookup(ValueString(p.namespace), err)>> \o t
                                : t \in namespaceLookups(Tail(elems))} :
                        err \in GetErrors(ValueString(p.namespace))}

\* how the loop ended: "panic", "invalid" (the diagnostic) or "exists"
LookupVerdict(lookups) ==
    IF lookups = <<>> THEN "exists"
    ELSE LET err == lookups[Len(lookups)].err
         IN IF namespaceExistsPanics(err) THEN "panic"
            ELSE IF ~namespaceExists(err) THEN "invalid" ELSE "exists"

WhitelistStrings(wl) == MapSeq(ValueString, wl.elems)

RoleCreateOutcomeNoExists(resp) ==
    LET err == IF ErrorOf(resp) = "ROLE_ALREADY_EXISTS" THEN "TIMEOUT" ELSE ErrorOf(resp)
    IN IF err = "QUOTAS_NOT_ENABLED" THEN <<"diag", "Quotas not enabled">>
       ELSE IF err = "OK" THEN <<"ok", "">> ELSE <<"panic", "">>

\* the switch on CreateRole's error: <<outcome, diagnostic summary>>
RoleCreateOutcome(resp) ==
    LET err == ErrorOf(resp)
    IN IF err = "OK" THEN <<"ok", "">>
       ELSE IF err = "QUOTAS_NOT_ENABLED" THEN <<"diag", "Quotas not enabled">>
       ELSE IF err = "ROLE_ALREADY_EXISTS" THEN <<"diag", "Role already exists">>
       ELSE <<"panic", "">>

RoleCreate(data) ==
    /\ ~roleState.present
    /\ \E lookups \in namespaceLookups(data.Privileges.elems) :
        IF LookupVerdict(lookups) # "exists"
        THEN /\ last' = WithLookups(IF LookupVerdict(lookups) = "invalid"
                                    THEN Run("RoleCreate", roleState, data, <<>>, "diag", "Invalid namesace")
                                    ELSE Run("RoleCreate", roleState, data, <<>>, "panic", ""),
                                    lookups)
             /\ UNCHANGED <<roleState, srvRole>>
        ELSE LET roleName == ValueString(data.Role_name)
                 readQuota == Uint32(ValueInt64(data.Read_quota))
                 writeQuota == Uint32(ValueInt64(data.Write_quota))
                 privileges == MapSeq(asPrivOfModel, data.Privileges.elems)
                 whiteList == WhitelistStrings(data.White_list)
                 call == Call("CreateRole", roleName,
                              [privileges |-> privileges, whiteList |-> whiteList,
                               readQuota |-> readQuota, writeQuota |-> writeQuota])
             IN \E resp \in (IF srvRole.exists THEN {"ROLE_ALREADY_EXISTS", "TIMEOUT"} ELSE {"OK",
                     "TIMEOUT", "TIMEOUT_LATE"} \cup (IF readQuota # Uint32Zero \/ writeQuota # Uint32Zero
                     THEN {"QUOTAS_NOT_ENABLED"} ELSE {})) :
                 LET out == RoleCreateOutcome(resp)
                 IN /\ srvRole' = IF Applied(resp)
                                  THEN ([exists |-> TRUE, Privileges |-> SeqToSet(privileges),
                                          Whitelist |-> whiteList, ReadQuota |-> readQuota,
                                          WriteQuota |-> writeQuota])
                                  ELSE srvRole
                    /\ roleState' = IF out[1] = "ok" THEN RoleStateOf(data) ELSE roleState
                    /\ last' = WithLookups(Run("RoleCreate", roleState, data, <<Answered(call, resp)>>,
                                                out[1], out[2]), lookups)
    /\ UNCHANGED <<userState, srvUser, nsState, svcState, cluster, conn>>

RoleReadOutcomeStrict(resp) ==
    IF ErrorOf(resp) = "OK" THEN "ok" ELSE "panic"

\* the two error tests after QueryRole
RoleReadOutcome(resp) ==
    IF ErrorOf(resp) # "OK" /\ ErrorOf(resp) # "INVALID_ROLE" THEN "panic" ELSE "ok"

RoleRead ==
    /\ roleState.present
    /\ LET data == roleState.data
           call == Call("QueryRole", ValueString(data.Role_name), <<>>)
           \* only the role called RoleName can exist on the server
           known == ValueString(data.Role_name) = RoleName
       IN \E resp \in (IF known THEN (IF srvRole.exists THEN {"OK", "INVALID_ROLE", "TIMEOUT"}
               ELSE {"INVALID_ROLE", "TIMEOUT"}) ELSE {"INVALID_ROLE", "TIMEOUT"}) :
           LET outcome == RoleReadOutcome(resp)
           IN /\ srvRole' = IF known /\ resp = "INVALID_ROLE" THEN NoSrvRole ELSE srvRole
              /\ IF outcome = "panic"
                 THEN roleState' = roleState
                 ELSE IF ErrorOf(resp) = "INVALID_ROLE"
                      THEN roleState' = RoleStateOf(RoleModelNull)
                      ELSE \E order \in Orderings(srvRole.Privileges) :
                            roleState' = RoleStateOf(RoleModel(data.Role_name,
                                            (IF Len(order) = 0 THEN SetNull
                                                    ELSE SetValue(MapSeq(asPrivToStringValues, order))),
                                            (IF Len(srvRole.Whitelist) = 0 THEN SetNull
                                                    ELSE SetValue(MapSeq(StringValue, srvRole.Whitelist))),
                                            Int64Value(Int64FromUint32(srvRole.ReadQuota)),
                                            Int64Value(Int64FromUint32(srvRole.WriteQuota))))
              /\ last' = Run("RoleRead", roleState, NoModel, <<Answered(call, resp)>>, outcome, "")
    /\ UNCHANGED <<userState, srvUser, nsState, svcState, cluster, conn>>

RoleDeleteOutcomeStrict(resp) ==
    IF ErrorOf(resp) # "OK" THEN "panic" ELSE "ok"

RoleDeleteOutcome(resp) ==
    IF ErrorOf(resp) # "OK" /\ ErrorOf(resp) # "INVALID_ROLE" THEN "panic" ELSE "ok"

RoleDelete ==
    /\ roleState.present
    /\ LET data == roleState.data
           call == Call("DropRole", ValueString(data.Role_name), <<>>)
           known == ValueString(data.Role_name) = RoleName
       IN \E resp \in (IF known THEN (IF srvRole.exists THEN {"OK", "INVALID_ROLE", "TIMEOUT",
               "TIMEOUT_LATE"} ELSE {"INVALID_ROLE", "TIMEOUT"}) ELSE {"INVALID_ROLE", "TIMEOUT"}) :
           LET outcome == RoleDeleteOutcome(resp)
           IN /\ srvRole' = IF known /\ (Applied(resp) \/ resp = "INVALID_ROLE") THEN NoSrvRole ELSE srvRole
              \* the framework removes the resource when Delete reports no error
              /\ roleState' = IF outcome = "ok" THEN NoRoleState ELSE roleState
              /\ last' = Run("RoleDelete", roleState, NoModel, <<Answered(call, resp)>>, outcome, "")
    /\ UNCHANGED <<userState, srvUser, nsState, svcState, cluster, conn>>

\* a handler's progress: the server as left so far, the calls sent, and the
\* error of the last call ("OK" while the handler is still running)
Progress(srv, calls, err) == [srv |-> srv, calls |-> calls, err |-> err]
AfterCallIgnoringError(s, call, resp, srvIfApplied) ==
    Progress(IF Applied(resp) THEN srvIfApplied ELSE s.srv, Append(s.calls, Answered(call, resp)), "OK")
AfterCall(s, call, resp, srvIfApplied) ==
    Progress(IF Applied(resp) THEN srvIfApplied ELSE s.srv, Append(s.calls, Answered(call, resp)),
            ErrorOf(resp))

\* sliceutil.Contains over a slice of as.Privilege
Contains(slice, p) == p \in SeqToSet(slice)

RECURSIVE NotContained(_, _)
\* the loop "for p in xs: if !Contains(ys, p) then append"
NotContained(xs, ys) ==
    IF xs = <<>> THEN <<>>
    ELSE IF ~Contains(ys, Head(xs)) THEN <<Head(xs)>> \o NotContained(Tail(xs), ys)
         ELSE NotContained(Tail(xs), ys)

privsToAddAll(planASPrivileges, stateASPrivileges) == planASPrivileges
privsToAdd(planASPrivileges, stateASPrivileges) == NotContained(planASPrivileges, stateASPrivileges)

privsToRevokeAll(planASPrivileges, stateASPrivileges) == stateASPrivileges
privsToRevoke(planASPrivileges, stateASPrivileges) == NotContained(stateASPrivileges, planASPrivileges)

\* reflect.DeepEqual of two attribute values
DeepEqual(a, b) == a = b

whitelistChangedAlways(plan, state) == TRUE
whitelistChanged(plan, state) == ~DeepEqual(plan.White_list, state.White_list)

quotasChangedReadOnly(plan, state) == plan.Read_quota # state.Read_quota
\* plan.Read_quota != state.Read_quota || plan.Write_quota != state.Write_quota
quotasChanged(plan, state) ==
    plan.Read_quota # state.Read_quota \/ plan.Write_quota # state.Write_quota

RoleUpdate(plan) ==
    /\ roleState.present
    /\ plan.Role_name = roleState.data.Role_name
    /\ plan # roleState.data
    /\ LET state == roleState.data
           privChanged == ~DeepEqual(plan.Privileges, state.Privileges)
           name == ValueString(plan.Role_name)
       IN \E lookups \in namespaceLookups(IF privChanged THEN plan.Privileges.elems ELSE <<>>) :
           IF LookupVerdict(lookups) # "exists"
           THEN /\ last' = WithLookups(IF LookupVerdict(lookups) = "invalid"
                                       THEN Run("RoleUpdate", roleState, plan, <<>>, "diag", "Invalid namesace")
                                       ELSE Run("RoleUpdate", roleState, plan, <<>>, "panic", ""),
                                       lookups)
                /\ UNCHANGED <<roleState, srvRole>>
           ELSE
             \E toAdd \in {privsToAdd(MapSeq(asPrivOfModel, plan.Privileges.elems),
                                      MapSeq(asPrivOfModel, state.Privileges.elems))},
                toRevoke \in {privsToRevoke(MapSeq(asPrivOfModel, plan.Privileges.elems),
                                            MapSeq(asPrivOfModel, state.Privileges.elems))} :
             LET needGrant == privChanged /\ Len(toAdd) > 0
                 needRevoke == privChanged /\ Len(toRevoke) > 0
                 needWhitelist == whitelistChanged(plan, state)
                 needQuotas == quotasChanged(plan, state)
                 whiteList == WhitelistStrings(plan.White_list)
                 readQuota == Uint32(ValueInt64(plan.Read_quota))
                 writeQuota == Uint32(ValueInt64(plan.Write_quota))
             IN \* each call's answer is drawn when the call is reached, and each
                \* step is bound once, in program order
                 \E rGrant \in (IF needGrant THEN RoleAdminResponses(srvRole) ELSE {"OK"}) :
                 \E s1 \in {IF needGrant
                            THEN AfterCall(Progress(srvRole, <<>>, "OK"),
                                           Call("GrantPrivileges", name, toAdd), rGrant,
                                           [srvRole EXCEPT !.Privileges = @ \cup SeqToSet(toAdd)])
                            ELSE Progress(srvRole, <<>>, "OK")} :
                 \E rRevoke \in (IF s1.err = "OK" /\ needRevoke THEN RoleAdminResponses(srvRole) ELSE {"OK"}) :
                 \E s2 \in {IF s1.err = "OK" /\ needRevoke
                            THEN AfterCall(s1, Call("RevokePrivileges", name, toRevoke), rRevoke,
                                           [s1.srv EXCEPT !.Privileges = @ \ SeqToSet(toRevoke)])
                            ELSE s1} :
                 \E rWhitelist \in (IF s2.err = "OK" /\ needWhitelist THEN RoleAdminResponses(srvRole)
                         ELSE {"OK"}) :
                 \E s3 \in {IF s2.err = "OK" /\ needWhitelist
                            THEN AfterCall(s2, Call("SetWhitelist", name, whiteList), rWhitelist,
                                           [s2.srv EXCEPT !.Whitelist = whiteList])
                            ELSE s2} :
                 \E rQuotas \in (IF s3.err = "OK" /\ needQuotas THEN (IF srvRole.exists THEN {"OK",
                         "QUOTAS_NOT_ENABLED", "TIMEOUT"} ELSE {"INVALID_ROLE"}) ELSE {"OK"}) :
                 \E s4 \in {IF s3.err = "OK" /\ needQuotas
                            THEN AfterCall(s3, Call("SetQuotas", name, <<readQuota, writeQuota>>), rQuotas,
                                           [s3.srv EXCEPT !.ReadQuota = readQuota, !.WriteQuota = writeQuota])
                            ELSE s3} :
                 \* only SetQuotas' error is tested for QUOTAS_NOT_ENABLED
                 \E outcome \in {IF s4.err = "OK" THEN "ok"
                                 ELSE IF s3.err = "OK" /\ s4.err = "QUOTAS_NOT_ENABLED" THEN "diag"
                                 ELSE "panic"} :
                    /\ srvRole' = s4.srv
                    /\ roleState' = IF outcome = "ok" THEN RoleStateOf(plan) ELSE roleState
                    /\ last' = WithLookups(Run("RoleUpdate", roleState, plan, s4.calls, outcome,
                                                IF outcome = "diag" THEN "Quotas not enabled" ELSE ""),
                                            lookups)
    /\ UNCHANGED <<userState, srvUser, nsState, svcState, cluster, conn>>

\* the role reconciler, driven by the plans of a given set
NextRoleOver(plans) ==
    \/ \E plan \in plans : RoleCreate(plan)
    \/ RoleRead
    \/ \E plan \in plans : RoleUpdate(plan)
    \/ RoleDelete

NextRole == NextRoleOver(RolePlans)

SpecRole == Init /\ [][NextRole]_vars

\* roles that differ in their quotas: each quota on its own and both, over
\* two privilege sets
QuotaValues == {0, 5, 7}

NextQuota == NextRoleOver(({RoleModel(StringValue(RoleName), SetValue(<<p>>),
        SetValue(<<StringValue("1.1.1.1")>>), Int64Value(Int64Of(rq)), Int64Value(Int64Of(wq)))
        : p \in {PrivModel("read", StringNull, StringNull), PrivModel("write", StringValue("aerospike"),
        StringValue("test"))}, rq \in QuotaValues, wq \in QuotaValues}))

SpecQuota == Init /\ [][NextQuota]_vars

(***************************************************************************)
(* User reconciler                                                         *)
(***************************************************************************)
UserPlans ==
    {UserModel(StringValue(UserName), StringValue(pw), roles) :
        pw \in ({"testpass1", "testpass2"}),
        roles \in {SetNull} \cup {SetValue(MapSeq(StringValue, r)) : r \in SeqsUpTo(({"role1", "role2"}),
                MaxRoles)}}

UserAdminResponses(srv) == IF srv.exists THEN {"OK", "TIMEOUT"} ELSE {"INVALID_USER"}

RECURSIVE Insert(_, _)
Insert(x, sorted) ==
    IF sorted = <<>> THEN <<x>>
    ELSE IF StringRank(x) <= StringRank(Head(sorted)) THEN <<x>> \o sorted
         ELSE <<Head(sorted)>> \o Insert(x, Tail(sorted))

RECURSIVE SortStrings(_)
\* sort.Strings
SortStrings(s) == IF s = <<>> THEN <<>> ELSE Insert(Head(s), SortStrings(Tail(s)))

\* sliceutil.IntersectStrings: the elements of a that are also in b
IntersectStrings(a, b) == SelectNotIn(a, SeqToSet(a) \ SeqToSet(b))
\* sliceutil.Difference: the elements of a that are not in b
Difference(a, b) == SelectNotIn(a, SeqToSet(b))

\* the roles the server holds after a grant: each name once
RECURSIVE GrantTo(_, _)
GrantTo(held, roles) ==
    IF roles = <<>> THEN held
    ELSE GrantTo(IF Head(roles) \in SeqToSet(held) THEN held ELSE Append(held, Head(roles)), Tail(roles))

RoleStrings(roles) == MapSeq(ValueString, roles.elems)

UserCreate(data) ==
    /\ ~userState.present
    /\ LET tmpRoles == RoleStrings(data.Roles)
           call == Call("CreateUser", ValueString(data.User_name),
                        [password |-> ValueString(data.Password), roles |-> tmpRoles])
       IN \E resp \in (IF srvUser.exists THEN {"USER_ALREADY_EXISTS", "TIMEOUT"} ELSE {"OK", "TIMEOUT",
               "TIMEOUT_LATE"}) :
           LET outcome == (IF ErrorOf(resp) # "OK" THEN "panic" ELSE "ok")
           IN /\ srvUser' = IF Applied(resp)
                            THEN SrvUserOf(ValueString(data.Password), GrantTo(<<>>, tmpRoles))
                            ELSE srvUser
              /\ userState' = IF outcome = "ok" THEN UserStateOf(data) ELSE userState
              /\ last' = Run("UserCreate", userState, data, <<Answered(call, resp)>>, outcome, "")
    /\ UNCHANGED <<roleState, srvRole, nsState, svcState, cluster, conn>>

\* the state Read leaves when the server answers "invalid user"
UserReadAbsentNulls(state) == UserStateOf(UserModelNull)
UserReadAbsent(state) == NoUserState

ReadRolesVerbatim(queried) ==
    IF Len(queried) >= 1 THEN SetValue(MapSeq(StringValue, queried)) ELSE SetNull
\* data.Roles after Read, from the roles QueryUser returned: nil unless the
\* list has a first element other than ""
ReadRoles(queried) ==
    IF Len(queried) >= 1 /\ queried[1] # "" THEN SetValue(MapSeq(StringValue, queried)) ELSE SetNull

UserRead ==
    /\ userState.present
    /\ LET data == userState.data
           call == Call("QueryUser", ValueString(data.User_name), <<>>)
       IN \E resp \in (IF srvUser.exists THEN {"OK", "INVALID_USER", "TIMEOUT"} ELSE {"INVALID_USER",
               "TIMEOUT"}) :
           \* a user without roles is reported with no role or with the one role ""
           \E queried \in (IF resp # "OK" THEN {<<>>}
                            ELSE IF srvUser.roles = <<>> THEN {<<"">>, <<>>} ELSE {srvUser.roles}) :
           LET outcome == (IF ErrorOf(resp) # "OK" /\ ErrorOf(resp) # "INVALID_USER" THEN "panic" ELSE "ok")
           IN /\ srvUser' = IF resp = "INVALID_USER" THEN NoSrvUser ELSE srvUser
              /\ IF outcome = "panic"
                 THEN userState' = userState
                 ELSE IF ErrorOf(resp) = "INVALID_USER"
                      THEN userState' = UserReadAbsent(userState)
                      ELSE userState' = UserStateOf(UserModel(data.User_name, data.Password,
                                                              ReadRoles(queried)))
              /\ last' = WithResult(Run("UserRead", userState, NoModel, <<Answered(call, resp)>>, outcome, ""),
                                    queried)
    /\ UNCHANGED <<roleState, srvRole, nsState, svcState, cluster, conn>>

UserDelete ==
    /\ userState.present
    /\ LET data == userState.data
           call == Call("DropUser", ValueString(data.User_name), <<>>)
       IN \E resp \in (IF srvUser.exists THEN {"OK", "INVALID_USER", "TIMEOUT", "TIMEOUT_LATE"}
               ELSE {"INVALID_USER", "TIMEOUT"}) :
           LET outcome == (IF ErrorOf(resp) # "OK" /\ ErrorOf(resp) # "INVALID_USER" THEN "panic" ELSE "ok")
           IN /\ srvUser' = IF Applied(resp) \/ resp = "INVALID_USER" THEN NoSrvUser ELSE srvUser
              \* the framework removes the resource when Delete reports no error
              /\ userState' = IF outcome = "ok" THEN NoUserState ELSE userState
              /\ last' = Run("UserDelete", userState, NoModel, <<Answered(call, resp)>>, outcome, "")
    /\ UNCHANGED <<roleState, srvRole, nsState, svcState, cluster, conn>>

rolesToAddAll(planRoles, stateRoles) == planRoles
rolesToAdd(planRoles, stateRoles) == Difference(planRoles, IntersectStrings(stateRoles, planRoles))

rolesToRevoke(planRoles, stateRoles) == Difference(stateRoles, IntersectStrings(stateRoles, planRoles))

passwordChangedNever(plan, state) == FALSE
\* !plan.Password.Equal(state.Password)
passwordChanged(plan, state) == plan.Password # state.Password

UserUpdate(plan) ==
    /\ userState.present
    /\ plan.User_name = userState.data.User_name
    /\ plan # userState.data
    /\ LET state == userState.data
           name == ValueString(plan.User_name)
           needPassword == passwordChanged(plan, state)
       IN \E planRoles \in {SortStrings(RoleStrings(plan.Roles))},
             stateRoles \in {SortStrings(RoleStrings(state.Roles))} :
          \E toAdd \in {rolesToAdd(planRoles, stateRoles)},
             toRevoke \in {rolesToRevoke(planRoles, stateRoles)} :
          LET rolesDiffer == ~DeepEqual(planRoles, stateRoles)
              needGrant == rolesDiffer /\ Len(toAdd) > 0
              needRevoke == rolesDiffer /\ Len(toRevoke) > 0
              data == UserModel(plan.User_name, plan.Password,
                                IF rolesDiffer THEN plan.Roles ELSE state.Roles)
          IN \E rPassword \in (IF needPassword THEN UserAdminResponses(srvUser) ELSE {"OK"}) :
             \E s1 \in {IF needPassword
                        THEN AfterCall(Progress(srvUser, <<>>, "OK"),
                                       Call("ChangePassword", name, ValueString(plan.Password)), rPassword,
                                       [srvUser EXCEPT !.password = ValueString(plan.Password)])
                        ELSE Progress(srvUser, <<>>, "OK")} :
             \E rGrant \in (IF s1.err = "OK" /\ needGrant THEN UserAdminResponses(srvUser) ELSE {"OK"}) :
             \E s2 \in {IF s1.err = "OK" /\ needGrant
                        THEN AfterCall(s1, Call("GrantRoles", name, toAdd), rGrant,
                                       [s1.srv EXCEPT !.roles = GrantTo(@, toAdd)])
                        ELSE s1} :
             \E rRevoke \in (IF s2.err = "OK" /\ needRevoke THEN UserAdminResponses(srvUser) ELSE {"OK"}) :
             \E s3 \in {IF s2.err = "OK" /\ needRevoke
                        THEN AfterCall(s2, Call("RevokeRoles", name, toRevoke), rRevoke,
                                       [s2.srv EXCEPT !.roles = SelectNotIn(@, SeqToSet(toRevoke))])
                        ELSE s2} :
             \E outcome \in {IF s3.err = "OK" THEN "ok" ELSE "panic"} :
                /\ srvUser' = s3.srv
                /\ userState' = IF outcome = "ok" THEN UserStateOf(data) ELSE userState
                /\ last' = Run("UserUpdate", userState, plan, s3.calls, outcome, "")
    /\ UNCHANGED <<roleState, srvRole, nsState, svcState, cluster, conn>>

\* the user reconciler, driven by the plans of a given set
NextUserOver(plans) ==
    \/ \E plan \in plans : UserCreate(plan)
    \/ UserRead
    \/ \E plan \in plans : UserUpdate(plan)
    \/ UserDelete

NextUser == NextUserOver(UserPlans)

SpecUser == Init /\ [][NextUser]_vars

\* Read against any role list a server can report: a tracked user, and a
\* server whose list for that user is any list of up to MaxRoles names, the
\* empty name among them
InitUserRead ==
    /\ roleState = NoRoleState
    /\ srvRole = NoSrvRole
    /\ \E data \in UserPlans : userState = UserStateOf(data)
    /\ \E roles \in SeqsUpTo({"", "role1", "role2"}, MaxRoles) :
          srvUser = SrvUserOf(ValueString(userState.data.Password), roles)
    /\ nsState = NoConfigState
    /\ svcState = NoConfigState
    /\ cluster = ClusterOf(AcceptanceBuild, {})
    /\ conn = NoConn
    /\ last = Run("none", NoModel, NoModel, <<>>, "ok", "")

SpecUserRead == InitUserRead /\ [][UserRead]_vars

(***************************************************************************)
(* Info commands.  Texts that the code searches or slices are sequences of *)
(* characters; a response is a map from sub-command to text.               *)
(***************************************************************************)
OkText == <<"o", "k">>

\* strings.Contains
stringsContains(s, substr) ==
    \E i \in 0..(Len(s) - Len(substr)) : SubSeq(s, i + 1, i + Len(substr)) = substr

\* the texts a node answers with
ResponseTexts ==
    {OkText,
     <<"E", "R", "R", "O", "R", ":", ":", "x">>,
     <<"x", ":", "E", "R", "R", "O", "R">>,
     <<"e", "r", "r", "o", "r">>,
     <<"E", "R", "R">>,
     <<>>}

NilMap == [c \in {} |-> <<>>]
MapOf(cmd, text) == [c \in {cmd} |-> text]

\* a command: the string sent, and the setting and value the server reads in it
InfoCommand(text, key, value) == [text |-> text, key |-> key, value |-> value]
BuildCommand == InfoCommand("build", "build", "")

\* what node.RequestInfo returns
InfoResponse(err, retVal) == [err |-> err, retVal |-> retVal]

\* the node's answers to a command of the provider: the build, or "ok" for a
\* setting applied and an error text for one refused; a request may be lost,
\* or applied with the reply lost
InfoResponses(command) ==
    IF command = BuildCommand
    THEN {InfoResponse("OK", MapOf("build", cluster.build)), InfoResponse("TIMEOUT", NilMap)}
    ELSE {InfoResponse("OK", MapOf(command.text, OkText)),
          InfoResponse("OK", MapOf(command.text, <<"E", "R", "R", "O", "R", ":", ":", "x">>)),
          InfoResponse("TIMEOUT", NilMap),
          InfoResponse("TIMEOUT_LATE", NilMap)}

ClusterAfter(cl, command, resp) ==
    \* the setting is changed when the node answered "ok" or applied it late
    IF /\ command # BuildCommand
       /\ \/ resp.err = "TIMEOUT_LATE"
          \/ resp.err = "OK" /\ resp.retVal = MapOf(command.text, OkText)
    THEN ClusterOf(cl.build, ({p \in cl.settings : p[1] # command.key} \cup {<<command.key, command.value>>}))
    ELSE cl

GetRandomNodeErrors == {"OK", "INVALID_NODE_ERROR"}

\* a Go error: nil ("OK"), a client error by its result code, or errors.New
\* with its message
ErrorCode(code) == [code |-> code, message |-> <<>>]

InfoResult(retVal, err) == [retVal |-> retVal, err |-> err]

sendInfoCommandNoMarker(nodeErr, resp) ==
    IF nodeErr # "OK" THEN {InfoResult(NilMap, ErrorCode(nodeErr))}
    ELSE {InfoResult(resp.retVal, ErrorCode(ErrorOf(resp.err)))}

\* the values sendInfoCommand can return, given GetRandomNode's error and the
\* node's answer: the range over the map ends on any of its entries, so the
\* error names any of the marked ones
sendInfoCommand(nodeErr, resp) ==
    IF nodeErr # "OK" THEN {InfoResult(NilMap, ErrorCode(nodeErr))}
    ELSE LET requestRetVal == resp.retVal
             marked == {cmd \in DOMAIN requestRetVal : stringsContains(requestRetVal[cmd], (<<"E", "R",
                     "R", "O", "R">>))}
         IN IF marked = {} THEN {InfoResult(requestRetVal, ErrorCode(ErrorOf(resp.err)))}
            ELSE {InfoResult(requestRetVal, ([code |-> "errorString", message |-> <<"Error in request: ",
                    cmd, " error was: ", (requestRetVal[cmd])>>])) : cmd \in marked}

\* the calls one sendInfoCommand makes
InfoCalls(command, nodeErr, resp) ==
    <<[Call("GetRandomNode", "", <<>>) EXCEPT !.err = nodeErr]>>
    \o (IF nodeErr = "OK" THEN <<([fn |-> "RequestInfo", name |-> command.text, arg |-> <<command.key,
            command.value>>, err |-> ErrorOf(resp.err), reply |-> resp.retVal])>> ELSE <<>>)

SendInfoCommand(command) ==
    /\ \E nodeErr \in GetRandomNodeErrors :
       \E resp \in (IF nodeErr = "OK" THEN (InfoResponses(command) \cup {InfoResponse("OK",
               MapOf(command.text, t)) : t \in ResponseTexts} \cup {InfoResponse("OK",
               [c \in {command.text, "extra"} |-> IF c = "extra" THEN t[2] ELSE t[1]])
               : t \in ResponseTexts \X ResponseTexts}) ELSE {InfoResponse("OK", NilMap)}) :
       \E result \in sendInfoCommand(nodeErr, resp) :
          /\ cluster' = IF nodeErr = "OK" THEN ClusterAfter(cluster, command, resp) ELSE cluster
          /\ last' = WithResult(Run("sendInfoCommand", NoModel, command.text,
                                    InfoCalls(command, nodeErr, resp),
                                    IF result.err.code = "OK" THEN "ok" ELSE "error", ""),
                                result)
    /\ UNCHANGED <<roleState, srvRole, userState, srvUser, nsState, svcState, conn>>

\* asCapabilities
SetLevelTTL == 7

DigitChars == <<"0", "1", "2", "3", "4", "5", "6", "7", "8", "9">>
IsDigit(c) == \E d \in 1..Len(DigitChars) : DigitChars[d] = c

RECURSIVE DecimalValue(_)
DecimalValue(text) ==
    IF text = <<>> THEN 0
    ELSE DecimalValue(SubSeq(text, 1, Len(text) - 1)) * 10 + ((CHOOSE d \in 1..Len(DigitChars)
            : DigitChars[d] = (text[Len(text)])) - 1)

\* strconv.Atoi of an unsigned decimal text: the number, or an error
strconvAtoi(text) ==
    IF text # <<>> /\ \A i \in 1..Len(text) : IsDigit(text[i])
    THEN [ok |-> TRUE, n |-> DecimalValue(text)]
    ELSE [ok |-> FALSE, n |-> 0]

\* serverBuild["build"]: the zero value "" for a missing key
MapIndex(m, key) == IF key \in DOMAIN m THEN m[key] ELSE <<>>

ProbeResult(supported, err, outcome) == [supported |-> supported, err |-> err, outcome |-> outcome]

\* supportsCapability after its "build" command returned r
supportsCapability(capability, r) ==
    IF r.err.code # "OK" THEN ProbeResult(FALSE, r.err, "ok")
    ELSE LET build == MapIndex(r.retVal, "build")
         IN \* build[0:1] of the empty string is out of range
            IF Len(build) < 1 THEN ProbeResult(FALSE, ErrorCode("OK"), "panic")
            ELSE LET serverMajorVersion == strconvAtoi(SubSeq(build, 1, 1))
                 IN IF ~serverMajorVersion.ok THEN ProbeResult(FALSE, ErrorCode("OK"), "panic")
                    ELSE IF capability = SetLevelTTL
                         THEN ProbeResult(serverMajorVersion.n >= SetLevelTTL, ErrorCode("OK"), "ok")
                         ELSE ProbeResult(FALSE, ErrorCode("OK"), "ok")

SupportsCapability(capability) ==
    /\ \E nodeErr \in GetRandomNodeErrors :
       \E resp \in (IF nodeErr = "OK" THEN InfoResponses(BuildCommand) ELSE {InfoResponse("OK", NilMap)}) :
       \E r \in sendInfoCommand(nodeErr, resp) :
          LET result == supportsCapability(capability, r)
          IN last' = WithResult(Run("supportsCapability", NoModel, capability,
                                    InfoCalls(BuildCommand, nodeErr, resp), result.outcome, ""),
                                result)
    /\ UNCHANGED <<roleState, srvRole, userState, srvUser, nsState, svcState, cluster, conn>>

InitInfo == \E build \in ({<<"4", ".", "9", ".", "0", ".", "3">>, AcceptanceBuild, <<"7", ".", "0", ".",
        "0", ".", "1">>, <<"8", ".", "0", ".", "0", ".", "2">>, <<"1", "0", ".", "0", ".", "0", ".", "0">>,
        <<"1", "2", ".", "1", ".", "0", ".", "0">>}) : InitWith(build)

NextInfo ==
    \/ \E command \in ({BuildCommand, InfoCommand("set-config:context=service;migrate-threads=2",
            "set-config:context=service;migrate-threads", "2")}) : SendInfoCommand(command)
    \/ \E capability \in ({SetLevelTTL, 0}) : SupportsCapability(capability)

SpecInfo == InitInfo /\ [][NextInfo]_vars

(***************************************************************************)
(* Namespace and service configuration resources                           *)
(***************************************************************************)
\* a list attribute: null, unknown (a computed attribute in a plan) or known
ListNull == [isNull |-> TRUE, isUnknown |-> FALSE, elems |-> <<>>]
ListUnknown == [isNull |-> FALSE, isUnknown |-> TRUE, elems |-> <<>>]
ListValue(s) == [isNull |-> FALSE, isUnknown |-> FALSE, elems |-> s]
\* a map attribute: null, or its entries as <<key, value>> pairs
MapNull == [isNull |-> TRUE, elems |-> {}]
MapValue(entries) == [isNull |-> FALSE, elems |-> entries]
ObjectNull == [isNull |-> TRUE]

\* AerospikeConfigNamespaceXDRModel
XDRModel(dc, shipOnly, include, exclude) ==
    [isNull |-> FALSE, Datacenter |-> StringValue(dc), Ship_only_specified_sets |-> ([isNull |-> FALSE,
            value |-> shipOnly]),
     Include_sets |-> include, Exclude_sets |-> exclude]

\* AerospikeConfigNamespaceModel
ConfigNamespaceModel(namespace, ttl, cmds, xdr) ==
    [Namespace |-> namespace, Default_set_ttl |-> ttl, Info_commands |-> cmds, XDR_config |-> xdr]
\* AerospikeConfigServiceModel
ConfigServiceModel(threads, cmds) == [Migartion_threads |-> threads, Info_commands |-> cmds]

appendStringToListStringFront(str, list) == ListValue(<<StringValue(str)>> \o list.elems)
\* appendStringToListString: the elements of an unknown list are none
appendStringToListString(str, list) == ListValue(Append(list.elems, StringValue(str)))

\* attr.Value.String() of a known string: the value in double quotes
AttrString(v) == "\"" \o v \o "\""

RECURSIVE stringsJoin(_, _)
stringsJoin(elems, sep) ==
    IF elems = <<>> THEN ""
    ELSE IF Len(elems) = 1 THEN elems[1]
         ELSE elems[1] \o sep \o stringsJoin(Tail(elems), sep)

\* strconv.Itoa of a number below 100
strconvItoa(n) ==
    IF n < 10 THEN DigitChars[n + 1] ELSE DigitChars[(n \div 10) + 1] \o DigitChars[(n % 10) + 1]

\* a handler's progress through its info commands: the cluster as left, the
\* calls made, what the last sendInfoCommand returned, and info_commands
InfoProgress(cl, calls, result, cmds) == [cluster |-> cl, calls |-> calls, result |-> result, cmds |-> cmds]

\* one sendInfoCommand from progress s; record says whether the handler
\* appends the command to info_commands when it succeeded
AfterInfo(s, command, record) ==
    UNION {{InfoProgress(IF a[1] = "OK" THEN ClusterAfter(s.cluster, command, a[2]) ELSE s.cluster,
                         s.calls \o InfoCalls(command, a[1], a[2]),
                         x,
                         IF record /\ x.err.code = "OK"
                         THEN appendStringToListString(command.text, s.cmds) ELSE s.cmds) :
               x \in sendInfoCommand(a[1], a[2])} :
           a \in {<<"OK", r>> : r \in InfoResponses(command)}
                  \cup {<<n, InfoResponse("OK", NilMap)>> : n \in GetRandomNodeErrors \ {"OK"}}}

\* the commands of a sequence issued in order, up to the first that fails
RECURSIVE IssueSeq(_, _)
IssueSeq(commands, s) ==
    IF commands = <<>> THEN {s}
    ELSE UNION {IF t.result.err.code = "OK" THEN IssueSeq(Tail(commands), t) ELSE {t} :
                   t \in AfterInfo(s, Head(commands), TRUE)}

\* the default-ttl command of one entry of default_set_ttl
TTLCommand(namespace, set, ttl) ==
    InfoCommand("set-config:context=namespace;id=" \o namespace \o ";set=" \o set
                    \o ";default-ttl=" \o AttrString(ttl),
                "set-config:context=namespace;id=" \o namespace \o ";set=" \o set \o ";default-ttl",
                AttrString(ttl))

XDRCommandsShipSetAlways(namespace, xdrConfig) ==
    LET prefix == "set-config:context=xdr;dc=" \o ValueString(xdrConfig.Datacenter)
                     \o ";namespace=" \o namespace
        flag == IF xdrConfig.Ship_only_specified_sets.value THEN "true" ELSE "false"
        sets == stringsJoin(MapSeq(ValueString, xdrConfig.Include_sets), ",")
    IN <<InfoCommand(prefix \o ";ship-only-specified-sets=" \o flag, prefix \o ";ship-only-specified-sets", flag),
         InfoCommand(prefix \o ";ship-set=" \o sets, prefix \o ";ship-set", sets)>>

\* the two commands of an xdr_config, by ship_only_specified_sets
XDRCommands(namespace, xdrConfig) ==
    LET prefix == "set-config:context=xdr;dc=" \o ValueString(xdrConfig.Datacenter)
                     \o ";namespace=" \o namespace
    IN IF xdrConfig.Ship_only_specified_sets.value
       THEN LET sets == MapSeq(ValueString, xdrConfig.Include_sets)
            IN <<InfoCommand(prefix \o ";ship-only-specified-sets=true",
                             prefix \o ";ship-only-specified-sets", "true"),
                 InfoCommand(prefix \o ";ship-set=" \o stringsJoin(sets, ","),
                             prefix \o ";ship-set", stringsJoin(sets, ","))>>
       ELSE LET sets == MapSeq(ValueString, xdrConfig.Exclude_sets)
            IN <<InfoCommand(prefix \o ";ship-only-specified-sets=false",
                             prefix \o ";ship-only-specified-sets", "false"),
                 InfoCommand(prefix \o ";ignore-set=" \o stringsJoin(sets, ","),
                             prefix \o ";ignore-set", stringsJoin(sets, ","))>>

\* the end of a Create that records no state
ConfigCreateFails(op, state, data, s, outcome, summary) ==
    /\ cluster' = s.cluster
    /\ last' = Run(op, state, data, s.calls, outcome, summary)

\* State.Set of the model Create filled in.  info_commands is still unknown
\* when no command was appended: Terraform then reports an invalid result
\* and keeps the object with the unknown value as null.
ConfigCreated(data, s) ==
    IF s.cmds.isUnknown
    THEN [state |-> ConfigStateOf([data EXCEPT !.Info_commands = ListNull]), outcome |-> "error",
          diag |-> "Provider returned invalid result object after apply"]
    ELSE [state |-> ConfigStateOf([data EXCEPT !.Info_commands = s.cmds]), outcome |-> "ok", diag |-> ""]

ttlGateNone(data, probe) == ProbeResult(TRUE, ErrorCode("OK"), "ok")
\* the capability probe before the default-ttl commands
ttlGate(data, probe) ==
    IF data.Default_set_ttl.isNull THEN ProbeResult(TRUE, ErrorCode("OK"), "ok")
    ELSE supportsCapability(SetLevelTTL, probe.result)

ConfigNamespaceCreate(data) ==
    /\ ~nsState.present
    /\ LET namespace == ValueString(data.Namespace)
           start == InfoProgress(cluster, <<>>, InfoResult(NilMap, ErrorCode("OK")), data.Info_commands)
       IN \E probe \in (IF data.Default_set_ttl.isNull THEN {start} ELSE AfterInfo(start, BuildCommand,
               FALSE)) :
          \E supported \in {ttlGate(data, probe)} :
          IF supported.outcome = "panic" \/ supported.err.code # "OK"
          THEN nsState' = nsState /\ ConfigCreateFails("ConfigNamespaceCreate", nsState, data, probe,
                  "panic", "")
          ELSE IF ~supported.supported
          THEN /\ nsState' = nsState
               /\ ConfigCreateFails("ConfigNamespaceCreate", nsState, data, probe, "diag",
                       "Invalid server vesrion")
          ELSE \* the range over the map visits its entries in any order
               \E order \in Orderings(data.Default_set_ttl.elems) :
               \E ttl \in IssueSeq([i \in 1..Len(order) |-> TTLCommand(namespace, order[i][1], order[i][2])],
                                   [probe EXCEPT !.result = InfoResult(NilMap, ErrorCode("OK"))]) :
               IF ttl.result.err.code # "OK"
               THEN nsState' = nsState /\ ConfigCreateFails("ConfigNamespaceCreate", nsState, data, ttl,
                       "panic", "")
               ELSE \E xdr \in (IF data.XDR_config.isNull THEN {ttl}
                                 ELSE IssueSeq(XDRCommands(namespace, data.XDR_config), ttl)) :
                    IF xdr.result.err.code # "OK"
                    THEN /\ nsState' = nsState
                         /\ ConfigCreateFails("ConfigNamespaceCreate", nsState, data, xdr, "diag",
                                 "Error in request")
                    ELSE \E created \in {ConfigCreated(data, xdr)} :
                         /\ cluster' = xdr.cluster
                         /\ nsState' = created.state
                         /\ last' = Run("ConfigNamespaceCreate", nsState, data, xdr.calls,
                                        created.outcome, created.diag)
    /\ UNCHANGED <<roleState, srvRole, userState, srvUser, svcState, conn>>

ConfigServiceCreate(data) ==
    /\ ~svcState.present
    /\ LET start == InfoProgress(cluster, <<>>, InfoResult(NilMap, ErrorCode("OK")), data.Info_commands)
           threads == strconvItoa(ValueInt64(data.Migartion_threads))
           command == InfoCommand("set-config:context=service;migrate-threads=" \o threads,
                                  "set-config:context=service;migrate-threads", threads)
       IN \E sent \in (IF data.Migartion_threads.isNull THEN {start} ELSE IssueSeq(<<command>>, start)) :
          IF sent.result.err.code # "OK"
          THEN svcState' = svcState /\ ConfigCreateFails("ConfigServiceCreate", svcState, data, sent,
                  "panic", "")
          ELSE \E created \in {ConfigCreated(data, sent)} :
               /\ cluster' = sent.cluster
               /\ svcState' = created.state
               /\ last' = Run("ConfigServiceCreate", svcState, data, sent.calls, created.outcome, created.diag)
    /\ UNCHANGED <<roleState, srvRole, userState, srvUser, nsState, conn>>

\* Read: State.Get into data, State.Set of the same data
configReadDropsCommands(data) == ConfigStateOf([data EXCEPT !.Info_commands = ListNull])
configRead(data) == ConfigStateOf(data)

ConfigNamespaceRead ==
    /\ nsState.present
    /\ nsState' = configRead(nsState.data)
    /\ last' = Run("ConfigNamespaceRead", nsState, NoModel, <<>>, "ok", "")
    /\ UNCHANGED <<roleState, srvRole, userState, srvUser, svcState, cluster, conn>>

ConfigServiceRead ==
    /\ svcState.present
    /\ svcState' = configRead(svcState.data)
    /\ last' = Run("ConfigServiceRead", svcState, NoModel, <<>>, "ok", "")
    /\ UNCHANGED <<roleState, srvRole, userState, srvUser, nsState, cluster, conn>>

\* Update: State.Set of "data", which is declared and never assigned.  The
\* zero value of a list or map attribute has no element type: State.Set
\* either rejects it (the state stays the prior one) or writes the all-null
\* object, which Terraform saves and reports as inconsistent with a plan
\* that has a known value.
configUpdate(prior, plan, zero) ==
    {[state |-> prior, outcome |-> "diag", diag |-> "Value Conversion Error"],
     [state |-> ConfigStateOf(zero),
      outcome |-> IF [plan EXCEPT !.Info_commands = ListNull] = zero THEN "ok" ELSE "error",
      diag |-> IF [plan EXCEPT !.Info_commands = ListNull] = zero THEN ""
               ELSE "Provider produced inconsistent result after apply"]}

ConfigNamespaceUpdate(plan) ==
    /\ nsState.present
    /\ plan.Namespace = nsState.data.Namespace
    /\ \E written \in configUpdate(nsState, plan, (ConfigNamespaceModel(StringNull, MapNull, ListNull,
            ObjectNull))) :
          /\ nsState' = written.state
          /\ last' = Run("ConfigNamespaceUpdate", nsState, plan, <<>>, written.outcome, written.diag)
    /\ UNCHANGED <<roleState, srvRole, userState, srvUser, svcState, cluster, conn>>

ConfigServiceUpdate(plan) ==
    /\ svcState.present
    /\ \E written \in configUpdate(svcState, plan, (ConfigServiceModel([isNull |-> TRUE, value |-> 0],
            ListNull))) :
          /\ svcState' = written.state
          /\ last' = Run("ConfigServiceUpdate", svcState, plan, <<>>, written.outcome, written.diag)
    /\ UNCHANGED <<roleState, srvRole, userState, srvUser, nsState, cluster, conn>>

\* Delete: a log line; the state is removed as no error was raised
ConfigNamespaceDelete ==
    /\ nsState.present
    /\ nsState' = NoConfigState
    /\ last' = Run("ConfigNamespaceDelete", nsState, NoModel, <<>>, "ok", "")
    /\ UNCHANGED <<roleState, srvRole, userState, srvUser, svcState, cluster, conn>>

ConfigServiceDelete ==
    /\ svcState.present
    /\ svcState' = NoConfigState
    /\ last' = Run("ConfigServiceDelete", svcState, NoModel, <<>>, "ok", "")
    /\ UNCHANGED <<roleState, srvRole, userState, srvUser, nsState, cluster, conn>>

ConfigNamespacePlans ==
    {ConfigNamespaceModel(StringValue("aerospike"), ttl, ListUnknown, xdr) :
        ttl \in {MapNull, MapValue({}), MapValue({<<"set1", "100">>}),
                 MapValue({<<"set1", "100">>, <<"set2", "10M">>})},
        xdr \in {ObjectNull, XDRModel("dc1", TRUE, <<StringValue("set3"), StringValue("set4")>>, <<>>),
                 XDRModel("dc1", FALSE, <<>>, <<StringValue("set3")>>)}}
ConfigServicePlans ==
    {ConfigServiceModel(threads, ListUnknown) : threads \in {[isNull |-> TRUE, value |-> 0], Int64Value(2)}}

InitConfig == \E build \in ({AcceptanceBuild, <<"7", ".", "0", ".", "0", ".", "1">>}) : InitWith(build)

NextConfig ==
    \/ \E data \in ConfigNamespacePlans : ConfigNamespaceCreate(data)
    \/ ConfigNamespaceRead
    \/ \E plan \in ConfigNamespacePlans : ConfigNamespaceUpdate(plan)
    \/ ConfigNamespaceDelete
    \/ \E data \in ConfigServicePlans : ConfigServiceCreate(data)
    \/ ConfigServiceRead
    \/ \E plan \in ConfigServicePlans : ConfigServiceUpdate(plan)
    \/ ConfigServiceDelete

SpecConfig == InitConfig /\ [][NextConfig]_vars

(***************************************************************************)
(* The provider's Configure: the connection settings and the connection.   *)
(***************************************************************************)

\* os.LookupEnv: the variable is set to a value, or is not set
EnvUnset == [ok |-> FALSE, envValue |-> ""]
EnvSet(value) == [ok |-> TRUE, envValue |-> value]

\* the environment variable when it is set, whatever its value
withEnvironmentOverrideString(currentValue, env) ==
    IF env.ok THEN env.envValue ELSE currentValue

withEnvironmentOverrideInt64(currentValue, env) ==
    IF env.ok /\ strconvAtoi(env.envValue).ok THEN strconvAtoi(env.envValue).n ELSE currentValue

\* Configure runs once in a provider process; a process whose Configure
\* failed has ended, and the next one starts without a connection
Configure(data, env) ==
    /\ ~conn.open
    /\ LET user == withEnvironmentOverrideString(ValueString(data.UserName), env.AEROSPIKE_USER)
           password == withEnvironmentOverrideString(ValueString(data.Password), env.AEROSPIKE_PASSWORD)
           host == withEnvironmentOverrideString(ValueString(data.Host), env.AEROSPIKE_HOST)
           port == withEnvironmentOverrideInt64(ValueInt64(data.Port), env.AEROSPIKE_PORT)
       IN \E err \in ({"OK", "TIMEOUT", "NOT_AUTHENTICATED"}) :
            LET calls == <<[Call("CreateClientWithPolicyAndHost", host, <<port, user, password>>)
                               EXCEPT !.err = err]>>
            IN IF err # "OK"
               THEN /\ conn' = NoConn
                    /\ last' = Run("Configure", conn, [config |-> data, env |-> env], calls, "panic", "")
               ELSE /\ conn' = [open |-> TRUE, host |-> host, port |-> port, user |-> user,
                                password |-> password]
                    /\ last' = Run("Configure", conn, [config |-> data, env |-> env], calls, "ok", "")
    /\ UNCHANGED <<roleState, srvRole, userState, srvUser, nsState, svcState, cluster>>

\* the provider blocks and environments Configure is driven with
NextProvider ==
    \E data \in {[Host |-> host, Port |-> port, UserName |-> userName, Password |-> password] :
                    host \in {StringNull, StringValue("10.0.0.1")},
                    port \in {[isNull |-> TRUE, value |-> 0], Int64Value(4333)},
                    userName \in {StringNull, StringValue("tf")},
                    password \in {StringNull, StringValue("secret")}},
       env \in [AEROSPIKE_HOST : {EnvUnset, EnvSet("localhost")},
                AEROSPIKE_PORT : {EnvUnset, EnvSet(<<"3", "1", "0", "0">>), EnvSet(<<"x">>)},
                AEROSPIKE_USER : {EnvUnset, EnvSet("admin")},
                AEROSPIKE_PASSWORD : {EnvUnset, EnvSet("")}] :
        Configure(data, env)

SpecProvider == Init /\ [][NextProvider]_vars

(***************************************************************************)
(* Both reconcilers on one cluster, driven by the configurations of the    *)
(* acceptance tests.                                                       *)
(***************************************************************************)

Next == NextRoleOver(({RoleModel(StringValue(RoleName), SetValue(<<PrivModel("read", StringNull,
        StringNull)>>), SetValue(<<StringValue("1.1.1.1")>>), Int64Value(Int64Of(0)),
        Int64Value(Int64Of(0))), RoleModel(StringValue(RoleName), SetValue(<<PrivModel("write",
        StringValue("aerospike"), StringValue("test"))>>), SetValue(<<StringValue("1.1.1.1")>>),
        Int64Value(Int64Of(0)), Int64Value(Int64Of(0))), RoleModel(StringValue(RoleName),
        SetValue(<<PrivModel("write", StringValue("aerospike"), StringValue("test"))>>),
        SetValue(<<StringValue("2.2.2.2")>>), Int64Value(Int64Of(0)), Int64Value(Int64Of(0)))}))
        \/ NextUserOver(({UserModel(StringValue(UserName), StringValue("testpass1"),
        SetValue(<<StringValue("role1")>>)), UserModel(StringValue(UserName), StringValue("testpass2"),
        SetValue(<<StringValue("role1")>>))}))

Spec == Init /\ [][Next]_vars

\* the same, with the XDR part of the namespace configuration of the example
NextAll ==
    \/ Next
    \/ \E data \in {ConfigNamespaceModel(StringValue("aerospike"), MapNull, ListUnknown,
                                         XDRModel("dc1", FALSE, <<>>, <<StringValue("set3")>>))} :
          ConfigNamespaceCreate(data)
    \/ ConfigNamespaceDelete

SpecAll == Init /\ [][NextAll]_vars

\* both reconcilers over plans that share elements: privilege lists and role
\* lists that overlap, are reordered, grow and shrink
NextDiff ==
    \/ NextRoleOver({RoleModel(StringValue(RoleName), SetValue(r[1]), SetValue(<<StringValue("1.1.1.1")>>),
                               Int64Value(r[2]), Int64Value(r[3])) :
                        r \in {<<<<PrivModel("read", StringNull, StringNull),
                                   PrivModel("write", StringValue("aerospike"), StringValue("test"))>>,
                                 Int64Of(0), Int64Of(0)>>,
                               <<<<PrivModel("write", StringValue("aerospike"), StringValue("test")),
                                   PrivModel("read-write", StringValue("aerospike"), StringNull)>>,
                                 <<5, 0, 1, 0>>, Int64Of(-1)>>}})
    \/ NextUserOver({UserModel(StringValue(UserName), StringValue(u[1]), SetValue(MapSeq(StringValue, u[2]))) :
                        u \in {<<"testpass1", <<"role1", "role2">>>>, <<"testpass2", <<"role2", "role3">>>>}})

SpecDiff == Init /\ [][NextDiff]_vars

\* a role created, read back and dropped
NextPriv ==
    \/ \E plan \in ({RoleModel(StringValue(RoleName), SetValue(<<p>>),
            SetValue(<<StringValue("1.1.1.1")>>), Int64Value(Int64Of(0)), Int64Value(Int64Of(0)))
            : p \in ({PrivModel(k, ns[1], ns[2]) : k \in PrivilegeNames, ns \in {<<StringNull,
            StringNull>>, <<StringValue("aerospike"), StringNull>>, <<StringValue("aerospike"),
            StringValue("test")>>}})}) : RoleCreate(plan)
    \/ RoleRead
    \/ RoleDelete

SpecPriv == Init /\ [][NextPriv]_vars

(***************************************************************************)
(* Properties                                                              *)
(***************************************************************************)

\* C1: a role Update passes exactly planned - prior privileges to
\* GrantPrivileges and exactly prior - planned to RevokePrivileges, each call
\* at most once and only for a non-empty set (and, when Update completes,
\* whenever the set is non-empty); with equal sets neither call is issued.
C1_RolePrivilegeDiff ==
    last.op = "RoleUpdate" =>
        LET P1 == SeqToSet(last.prior.data.Privileges.elems)
            P2 == SeqToSet(last.plan.Privileges.elems)
            grants == CallsOf("GrantPrivileges")
            revokes == CallsOf("RevokePrivileges")
        IN /\ Cardinality(grants) <= 1
           /\ Cardinality(revokes) <= 1
           /\ \A i \in grants :
                /\ P2 \ P1 # {}
                /\ SeqToSet(last.calls[i].arg) = {asPrivOfModel(p) : p \in P2 \ P1}
                /\ Len(last.calls[i].arg) = Cardinality(P2 \ P1)
           /\ \A i \in revokes :
                /\ P1 \ P2 # {}
                /\ SeqToSet(last.calls[i].arg) = {asPrivOfModel(p) : p \in P1 \ P2}
                /\ Len(last.calls[i].arg) = Cardinality(P1 \ P2)
           /\ (P1 = P2 => grants = {} /\ revokes = {})
           /\ (last.outcome = "ok" => /\ (grants # {} <=> P2 \ P1 # {})
                                      /\ (revokes # {} <=> P1 \ P2 # {}))

\* an Update that granted one privilege and revoked another
C1_Witness ==
    /\ last.op = "RoleUpdate"
    /\ last.outcome = "ok"
    /\ CallsOf("GrantPrivileges") # {}
    /\ CallsOf("RevokePrivileges") # {}

\* C2: a user Update passes exactly the planned roles missing from the prior
\* list to GrantRoles and the prior roles missing from the plan to
\* RevokeRoles (as sets, whatever the order of the lists), each call at most
\* once and only for a non-empty set; equal sets give no call.
C2_UserRoleDiff ==
    last.op = "UserUpdate" =>
        LET R1 == {ValueString(r) : r \in SeqToSet(last.prior.data.Roles.elems)}
            R2 == {ValueString(r) : r \in SeqToSet(last.plan.Roles.elems)}
            grants == CallsOf("GrantRoles")
            revokes == CallsOf("RevokeRoles")
        IN /\ Cardinality(grants) <= 1
           /\ Cardinality(revokes) <= 1
           /\ \A i \in grants : R2 \ R1 # {} /\ SeqToSet(last.calls[i].arg) = R2 \ R1
           /\ \A i \in revokes : R1 \ R2 # {} /\ SeqToSet(last.calls[i].arg) = R1 \ R2
           /\ (R1 = R2 => grants = {} /\ revokes = {})
           /\ (last.outcome = "ok" => /\ (grants # {} <=> R2 \ R1 # {})
                                      /\ (revokes # {} <=> R1 \ R2 # {}))

\* an Update that granted one role and revoked another
C2_Witness ==
    /\ last.op = "UserUpdate"
    /\ last.outcome = "ok"
    /\ CallsOf("GrantRoles") # {}
    /\ CallsOf("RevokeRoles") # {}

\* C3: a user Update that changes the password and keeps the roles sends one
\* ChangePassword with the planned password and nothing else; when the call
\* succeeds the state holds the planned password and the roles as before.
C3_PasswordOnlyUpdate ==
    (/\ last.op = "UserUpdate"
     /\ last.plan.Password # last.prior.data.Password
     /\ SeqToSet(last.plan.Roles.elems) = SeqToSet(last.prior.data.Roles.elems)) =>
        /\ Len(last.calls) = 1
        /\ last.calls[1].fn = "ChangePassword"
        /\ last.calls[1].arg = last.plan.Password.value
        /\ CallsOf("GrantRoles") = {}
        /\ CallsOf("RevokeRoles") = {}
        /\ (last.outcome = "ok" =>
              /\ userState.present
              /\ userState.data.User_name = last.plan.User_name
              /\ userState.data.Password = last.plan.Password
              /\ SeqToSet(userState.data.Roles.elems) = SeqToSet(last.prior.data.Roles.elems)
              /\ (last.plan.Roles = last.prior.data.Roles =>
                    userState.data.Roles = last.prior.data.Roles))

\* the acceptance test's second step: password testpass1 -> testpass2, roles [role1]
C3_Witness ==
    /\ last.op = "UserUpdate"
    /\ last.outcome = "ok"
    /\ last.prior.data.Password = StringValue("testpass1")
    /\ last.plan.Password = StringValue("testpass2")
    /\ last.plan.Roles = SetValue(<<StringValue("role1")>>)
    /\ last.prior.data.Roles = last.plan.Roles
    /\ userState.data = last.plan

\* C4: a role Update that changes the whitelist and plans the privileges
\* value the state holds sends one SetWhitelist carrying the whole planned
\* whitelist and no GrantPrivileges or RevokePrivileges; an unchanged
\* whitelist gives no SetWhitelist.
C4_WhitelistWholesale ==
    last.op = "RoleUpdate" =>
        LET changed == last.plan.White_list # last.prior.data.White_list
            samePrivs == last.plan.Privileges = last.prior.data.Privileges
            sets == CallsOf("SetWhitelist")
        IN /\ (changed /\ samePrivs =>
                 /\ Cardinality(sets) = 1
                 /\ \A i \in sets :
                      last.calls[i].arg = [j \in 1..Len(last.plan.White_list.elems) |->
                                              last.plan.White_list.elems[j].value]
                 /\ CallsOf("GrantPrivileges") = {}
                 /\ CallsOf("RevokePrivileges") = {})
           /\ (~changed => sets = {})

\* the acceptance test's third step: whitelist 1.1.1.1 -> 2.2.2.2, same privileges
C4_Witness ==
    /\ last.op = "RoleUpdate"
    /\ last.outcome = "ok"
    /\ last.prior.data.White_list = SetValue(<<StringValue("1.1.1.1")>>)
    /\ last.plan.White_list = SetValue(<<StringValue("2.2.2.2")>>)
    /\ last.plan.Privileges = last.prior.data.Privileges
    /\ last.plan.Privileges.elems # <<>>
    /\ srvRole.Whitelist = <<"2.2.2.2">>

\* C5: converting a declared privilege to the client's privilege and back
\* gives the declared (kind, namespace, set) again, and a Read that finds
\* the role records the privilege tuples the state held since Create.
C5_PrivilegeRoundTrip ==
    /\ (last.op = "RoleCreate" =>
          \A p \in SeqToSet(last.plan.Privileges.elems) :
              asPrivToStringValues(asPrivFromStringValues(p.privilege, p.namespace, p.set)) = p)
    /\ (last.op = "RoleRead" /\ last.outcome = "ok" /\ last.calls[1].err = "OK" =>
          /\ SeqToSet(roleState.data.Privileges.elems) = SeqToSet(last.prior.data.Privileges.elems)
          /\ \A p \in SeqToSet(roleState.data.Privileges.elems) :
                p.privilege.value \in PrivilegeNames)

\* the role of the acceptance test (write on aerospike.test) read back
C5_Witness ==
    /\ last.op = "RoleRead"
    /\ last.outcome = "ok"
    /\ last.calls[1].err = "OK"
    /\ roleState.data.Privileges =
          SetValue(<<PrivModel("write", StringValue("aerospike"), StringValue("test"))>>)
    /\ last.prior.data.Privileges = roleState.data.Privileges

C7_UserReadInvalidUser ==
    (last.op = "UserRead" /\ last.calls[1].err = "INVALID_USER") =>
        /\ last.outcome = "ok"
        /\ last.diag = ""
        /\ userState = NoUserState

\* a tracked user that the server no longer has
C7_Witness ==
    /\ last.op = "UserRead"
    /\ last.calls[1].err = "INVALID_USER"
    /\ last.prior.present
    /\ ~userState.present

\* C8: a Delete whose drop call is answered "invalid role" / "invalid user"
\* succeeds like one answered without error: no panic, the object is absent
\* on the server and gone from state.
C8_DeleteIdempotent ==
    /\ (last.op = "RoleDelete" /\ last.calls[1].err \in {"OK", "INVALID_ROLE"} =>
          /\ last.outcome = "ok"
          /\ ~roleState.present
          /\ ~srvRole.exists)
    /\ (last.op = "UserDelete" /\ last.calls[1].err \in {"OK", "INVALID_USER"} =>
          /\ last.outcome = "ok"
          /\ ~userState.present
          /\ ~srvUser.exists)

\* a Delete of a role the server had already dropped
C8_Witness ==
    /\ last.op = "RoleDelete"
    /\ last.calls[1].err = "INVALID_ROLE"
    /\ last.prior.data.Role_name = StringValue(RoleName)
    /\ last.outcome = "ok"

\* C9: role Create ends in one of three different ways on failure: the
\* quotas diagnostic, the role-already-exists diagnostic, or a panic; in none
\* of them is the role recorded in state.
C9_RoleCreateFailures ==
    (last.op = "RoleCreate" /\ last.calls # <<>>) =>
        LET err == last.calls[1].err
        IN /\ (err = "QUOTAS_NOT_ENABLED" =>
                 last.outcome = "diag" /\ last.diag = "Quotas not enabled" /\ ~roleState.present)
           /\ (err = "ROLE_ALREADY_EXISTS" =>
                 last.outcome = "diag" /\ last.diag = "Role already exists" /\ ~roleState.present)
           /\ (err \notin {"OK", "QUOTAS_NOT_ENABLED", "ROLE_ALREADY_EXISTS"} =>
                 last.outcome = "panic" /\ ~roleState.present)
           /\ (err = "OK" => last.outcome = "ok" /\ roleState = RoleStateOf(last.plan))

\* a Create of a role that the server already has
C9_Witness ==
    /\ last.op = "RoleCreate"
    /\ last.calls # <<>>
    /\ last.calls[1].err = "ROLE_ALREADY_EXISTS"
    /\ last.diag = "Role already exists"

\* C10: a user Create answered "user already exists" ends with a
\* diagnostic, not the way a generic failure of the call ends.
C10_UserCreateExistsDiagnostic ==
    (last.op = "UserCreate" /\ last.calls[1].err = "USER_ALREADY_EXISTS") =>
        /\ last.outcome = "diag"
        /\ last.diag # ""

\* C11: in role Create, and in role Update when the privileges changed, a
\* dummy-key lookup answered "invalid namespace" ends the handler with the
\* "Invalid namesace" diagnostic, without any admin call and with the state
\* as before; a lookup that failed with any other error lets the handler go
\* on, and every CreateRole, GrantPrivileges or RevokePrivileges call comes
\* after a lookup of each namespace the desired privileges name.
C11_NamespaceValidationFirst ==
    last.op \in {"RoleCreate", "RoleUpdate"} =>
        LET n == Len(last.lookups)
            named == {ValueString(p.namespace) :
                        p \in {q \in SeqToSet(last.plan.Privileges.elems) : ~q.namespace.isNull}}
            mutations == CallsOf("CreateRole") \cup CallsOf("GrantPrivileges") \cup CallsOf("RevokePrivileges")
        IN /\ ((\E i \in 1..n : last.lookups[i].err = "INVALID_NAMESPACE") =>
                 /\ last.outcome = "diag"
                 /\ last.diag = "Invalid namesace"
                 /\ last.calls = <<>>
                 /\ roleState = last.prior)
           /\ \A i \in 1..n :
                last.lookups[i].err \notin {"INVALID_NAMESPACE", "OK"} =>
                    \/ i < n
                    \/ ~(last.outcome = "diag" /\ last.diag = "Invalid namesace")
           /\ (mutations # {} =>
                 \A ns \in named : \E i \in 1..n :
                     last.lookups[i].namespace = ns /\ last.lookups[i].err # "INVALID_NAMESPACE")
           /\ (last.op = "RoleCreate" /\ n > 0 /\ last.lookups[n].err \notin {"INVALID_NAMESPACE", "OK"} =>
                 CallsOf("CreateRole") # {})

\* an Update to privileges on two namespaces: the lookup of the first timed
\* out, the second namespace does not exist
C11_Witness ==
    /\ last.op = "RoleUpdate"
    /\ Len(last.lookups) = 2
    /\ last.lookups[1].err = "TIMEOUT"
    /\ last.lookups[2].err = "INVALID_NAMESPACE"
    /\ last.outcome = "diag"
    /\ last.calls = <<>>
    /\ roleState = last.prior

\* C12: a role Update sends SetQuotas at most once, as its last call and
\* with the planned read and write quota; it sends none when both planned
\* quotas equal the prior ones, and sends it whenever one of them differs
\* and no earlier step ended the Update.  Answered "quotas not enabled", the
\* Update ends with the "Quotas not enabled" diagnostic, not a panic, and
\* the state stays as it was.
C12_QuotasWholesale ==
    last.op = "RoleUpdate" =>
        LET differs == \/ last.plan.Read_quota # last.prior.data.Read_quota
                       \/ last.plan.Write_quota # last.prior.data.Write_quota
            quotas == CallsOf("SetQuotas")
            n == Len(last.lookups)
            reached == /\ (n > 0 => last.lookups[n].err \notin {"INVALID_NAMESPACE", "OK"})
                       /\ \A i \in 1..Len(last.calls) :
                             last.calls[i].fn # "SetQuotas" => last.calls[i].err = "OK"
        IN /\ Cardinality(quotas) <= 1
           /\ (~differs => quotas = {})
           /\ (differs /\ reached => Cardinality(quotas) = 1)
           /\ \A i \in quotas :
                /\ i = Len(last.calls)
                /\ Len(last.calls[i].arg) = 2
                /\ Int64FromUint32(last.calls[i].arg[1]) = last.plan.Read_quota.value
                /\ Int64FromUint32(last.calls[i].arg[2]) = last.plan.Write_quota.value
                /\ (last.calls[i].err = "QUOTAS_NOT_ENABLED" =>
                      /\ last.outcome = "diag"
                      /\ last.diag = "Quotas not enabled"
                      /\ roleState = last.prior)
                /\ (last.calls[i].err = "OK" => last.outcome = "ok" /\ roleState.data = last.plan)

\* an Update that changes the write quota alone, on a server without quotas
C12_Witness ==
    /\ last.op = "RoleUpdate"
    /\ last.plan.Read_quota = last.prior.data.Read_quota
    /\ last.plan.Write_quota # last.prior.data.Write_quota
    /\ CallsOf("SetQuotas") # {}
    /\ last.calls[Len(last.calls)].err = "QUOTAS_NOT_ENABLED"
    /\ last.outcome = "diag"

\* C13: sendInfoCommand asks for one node and, given one, sends the command
\* once and never again; when a value of the response holds the marker
\* "ERROR" it returns an error made of a marked sub-command and its text,
\* and when none does and the request succeeded it returns the response map
\* and no error.
C13_InfoCommandSender ==
    last.op = "sendInfoCommand" =>
        LET requests == CallsOf("RequestInfo")
            nodes == CallsOf("GetRandomNode")
            \* the response texts that hold the marker "ERROR"
            markedTexts == {<<"E", "R", "R", "O", "R", ":", ":", "x">>, <<"x", ":", "E", "R", "R", "O", "R">>}
        IN /\ Cardinality(nodes) = 1
           /\ Cardinality(requests) <= 1
           /\ (requests # {} <=> last.calls[1].err = "OK")
           /\ \A i \in requests :
                LET reply == last.calls[i].reply
                    marked == {cmd \in DOMAIN reply : reply[cmd] \in markedTexts}
                IN /\ last.calls[i].name = last.plan
                   /\ (marked # {} =>
                         \E cmd \in marked :
                             last.result.err.message =
                                 <<"Error in request: ", cmd, " error was: ", reply[cmd]>>)
                   /\ (marked = {} /\ last.calls[i].err = "OK" =>
                         last.result = [retVal |-> reply, err |-> [code |-> "OK", message |-> <<>>]])

\* a two-line response whose second line alone holds the marker
C13_Witness ==
    /\ last.op = "sendInfoCommand"
    /\ Len(last.calls) = 2
    /\ DOMAIN last.calls[2].reply = {last.plan, "extra"}
    /\ last.calls[2].reply[last.plan] = <<"o", "k">>
    /\ last.calls[2].reply["extra"] = <<"x", ":", "E", "R", "R", "O", "R">>
    /\ last.result.err.message =
          <<"Error in request: ", "extra", " error was: ", <<"x", ":", "E", "R", "R", "O", "R">>>>

\* C14: asked about set-level TTL, the probe answers true exactly when the
\* major version the build text starts with is at least 7, whatever the
\* number of digits of that version.
C14_CapabilityProbe ==
    (/\ last.op = "supportsCapability"
     /\ last.plan = SetLevelTTL
     /\ last.result.err.code = "OK") =>
        LET build == cluster.build
            \* the number of digits the build text starts with
            k == CHOOSE j \in 0..Len(build) :
                    /\ \A i \in 1..j : IsDigit(build[i])
                    /\ (j < Len(build) => ~IsDigit(build[j + 1]))
            majorVersion == DecimalValue(SubSeq(build, 1, k))
        IN /\ last.outcome = "ok"
           /\ (last.result.supported <=> majorVersion >= 7)

\* C15: in the Create of a namespace configuration that declares default set
\* TTLs, every default-ttl command is preceded by an answered "build" probe;
\* and when the probe reports that set-level TTL is not supported, Create
\* ends with a diagnostic, has issued no set-config command (TTL or XDR)
\* and records no state.
C15_ProbeBeforeTTL ==
    last.op = "ConfigNamespaceCreate" /\ ~last.plan.Default_set_ttl.isNull =>
        LET calls == last.calls
            ttlTexts == {TTLCommand(ValueString(last.plan.Namespace), e[1], e[2]).text :
                            e \in last.plan.Default_set_ttl.elems}
            probes == {i \in 1..Len(calls) :
                          calls[i].fn = "RequestInfo" /\ calls[i].name = "build" /\ calls[i].err = "OK"}
            unsupported == \E i \in probes :
                              LET r == supportsCapability(SetLevelTTL, InfoResult(calls[i].reply,
                                      ErrorCode("OK")))
                              IN r.outcome = "ok" /\ ~r.supported
        IN /\ \A i \in 1..Len(calls) :
                calls[i].fn = "RequestInfo" /\ calls[i].name \in ttlTexts => \E j \in probes : j < i
           /\ unsupported =>
                /\ last.outcome = "diag"
                /\ \A i \in 1..Len(calls) : calls[i].fn = "RequestInfo" => calls[i].name = "build"
                /\ ~nsState.present

C15_Witness ==
    /\ last.op = "ConfigNamespaceCreate"
    /\ last.plan.Default_set_ttl.elems # {}
    /\ ~last.plan.XDR_config.isNull
    /\ last.outcome = "diag"
    /\ last.diag = "Invalid server vesrion"
    /\ \E i \in 1..Len(last.calls) : last.calls[i].fn = "RequestInfo" /\ last.calls[i].name = "build"
    /\ ~nsState.present

C19_ReadDeleteFrame ==
    [][last'.op \in {"ConfigNamespaceRead", "ConfigNamespaceDelete", "ConfigServiceRead",
            "ConfigServiceDelete"} =>
          /\ last'.calls = <<>>
          /\ cluster' = cluster
          /\ (last'.op = "ConfigNamespaceRead" => nsState' = nsState /\ nsState' = last'.prior)
          /\ (last'.op = "ConfigServiceRead" => svcState' = svcState /\ svcState' = last'.prior)]_vars

C19_Witness ==
    /\ last.op = "ConfigNamespaceDelete"
    /\ last.prior.present
    /\ Len(last.prior.data.Info_commands.elems) = 4
    /\ Cardinality(cluster.settings) >= 4
    /\ ~nsState.present

\* C20: an Update of a namespace or service configuration sends nothing to
\* the cluster and leaves the recorded state (namespace, declared settings
\* and info_commands) as it was before the Update.
C20_UpdateNoOp ==
    [][last'.op \in {"ConfigNamespaceUpdate", "ConfigServiceUpdate"} =>
          /\ last'.calls = <<>>
          /\ cluster' = cluster
          /\ nsState' = nsState
          /\ svcState' = svcState]_vars

\* C17: a Configure that opens the connection opens it with, per setting,
\* the environment variable when it is set, otherwise the value of the
\* provider block, otherwise the default: host localhost, port 3000, user
\* admin, password admin.
C17_SettingsResolution ==
    last.op = "Configure" /\ last.outcome = "ok" =>
        LET config == last.plan.config
            env == last.plan.env
            portEnv == strconvAtoi(env.AEROSPIKE_PORT.envValue)
        IN /\ conn.host = IF env.AEROSPIKE_HOST.ok THEN env.AEROSPIKE_HOST.envValue
                           ELSE IF ~config.Host.isNull THEN config.Host.value ELSE "localhost"
           /\ conn.user = IF env.AEROSPIKE_USER.ok THEN env.AEROSPIKE_USER.envValue
                           ELSE IF ~config.UserName.isNull THEN config.UserName.value ELSE "admin"
           /\ conn.password = IF env.AEROSPIKE_PASSWORD.ok THEN env.AEROSPIKE_PASSWORD.envValue
                               ELSE IF ~config.Password.isNull THEN config.Password.value ELSE "admin"
           /\ (env.AEROSPIKE_PORT.ok => portEnv.ok) =>
                 conn.port = IF env.AEROSPIKE_PORT.ok THEN portEnv.n
                             ELSE IF ~config.Port.isNull THEN config.Port.value ELSE 3000

\* C18: a Configure whose connection cannot be opened ends with an error
\* diagnostic, leaves the resources without a connection handle, and has
\* tried to connect once.
C18_ConnectFailureDiagnostic ==
    /\ last.op = "Configure"
    /\ \E i \in 1..Len(last.calls) : last.calls[i].err # "OK"
    => /\ last.outcome = "diag"
       /\ ~conn.open
       /\ Len(last.calls) = 1


\* C21: when a call of an operation fails with an error the operation does
\* not absorb (every error but "invalid role" / "invalid user" in Read and
\* Delete), the operation ends without success at that call: it is the
\* last call and the only failed one (nothing later, no retry, no undoing
\* call), the effects of the calls before it stay on the server, and the
\* tracked state is the one the operation started with.
C21_StopAtFirstFailure ==
    LET calls == last.calls
        absorbed(c) == /\ last.op \in {"RoleRead", "RoleDelete", "UserRead", "UserDelete"}
                       /\ c.err \in {"INVALID_ROLE", "INVALID_USER"}
        failed(c) == \/ c.err # "OK" /\ ~absorbed(c)
                     \/ /\ c.fn = "RequestInfo"
                        /\ \E k \in DOMAIN c.reply : stringsContains(c.reply[k], <<"E", "R", "R", "O", "R">>)
    IN (\E i \in 1..Len(calls) : failed(calls[i])) =>
          /\ last.outcome \in {"panic", "diag"}
          /\ \A i \in 1..Len(calls) : failed(calls[i]) => i = Len(calls)
          /\ last.op \in {"RoleCreate", "RoleRead", "RoleUpdate", "RoleDelete"} => roleState = last.prior
          /\ last.op \in {"UserCreate", "UserRead", "UserUpdate", "UserDelete"} => userState = last.prior
          /\ last.op = "ConfigNamespaceCreate" => nsState = last.prior
          /\ \A i \in 1..(Len(calls) - 1) :
                /\ calls[i].fn = "GrantPrivileges" => SeqToSet(calls[i].arg) \subseteq srvRole.Privileges
                /\ calls[i].fn = "RevokePrivileges" => SeqToSet(calls[i].arg) \cap srvRole.Privileges = {}
                /\ calls[i].fn = "ChangePassword" => srvUser.password = calls[i].arg
                /\ calls[i].fn = "GrantRoles" => SeqToSet(calls[i].arg) \subseteq SeqToSet(srvUser.roles)
                /\ calls[i].fn = "RequestInfo" => <<calls[i].arg[1], calls[i].arg[2]>> \in cluster.settings

\* a role Update that granted and revoked and then failed at set-whitelist
C21_Witness ==
    /\ last.op = "RoleUpdate"
    /\ Len(last.calls) = 3
    /\ last.calls[1].fn = "GrantPrivileges" /\ last.calls[1].err = "OK"
    /\ last.calls[3].fn = "SetWhitelist" /\ last.calls[3].err = "TIMEOUT"
    /\ last.outcome = "panic"
    /\ SeqToSet(last.calls[1].arg) \subseteq srvRole.Privileges
    /\ roleState = last.prior


\* C22: a Create of a namespace or service configuration in which a
\* set-config command (default-ttl, XDR or migrate-threads) came back as an
\* error, from the client or marked in the response, ends with an error
\* diagnostic.
C22_InfoErrorDiagnostic ==
    last.op \in {"ConfigNamespaceCreate", "ConfigServiceCreate"} =>
        \A i \in 1..Len(last.calls) :
            LET c == last.calls[i]
            IN /\ c.fn = "RequestInfo"
               /\ c.name # "build"
               /\ \/ c.err # "OK"
                  \/ \E k \in DOMAIN c.reply : stringsContains(c.reply[k], <<"E", "R", "R", "O", "R">>)
               => last.outcome = "diag" /\ last.diag = "Error in request"

\* C23: on a server that supports set-level TTL, a Create of a namespace
\* configuration in which no command failed has sent, for the n declared
\* entries of default_set_ttl, exactly n default-ttl commands: one for each
\* entry, with the namespace, the entry's set and the entry's TTL value.
C23_OneCommandPerEntry ==
    /\ last.op = "ConfigNamespaceCreate"
    /\ ~last.plan.Default_set_ttl.isNull
    /\ last.outcome \in {"ok", "error"}
    => LET sent == SelectSeq(last.calls, LAMBDA c : c.fn = "RequestInfo" /\ c.name # "build"
                                                      /\ c.arg[1] \notin {XDRCommands("aerospike", last.plan.XDR_config)[j].key
                                                                           : j \in IF last.plan.XDR_config.isNull THEN {} ELSE {1, 2}})
           entries == last.plan.Default_set_ttl.elems
       IN /\ Len(sent) = Cardinality(entries)
          /\ {sent[i].name : i \in 1..Len(sent)} =
                {"set-config:context=namespace;id=" \o ValueString(last.plan.Namespace) \o ";set=" \o e[1]
                    \o ";default-ttl=" \o e[2] : e \in entries}


\* C24: a user Read to which the server returned the role list of the one
\* element "" records the user without roles, and leaves the user name and
\* the password of the state as they were.
C24_EmptyRoleNormalized ==
    last.op = "UserRead" /\ last.calls[1].err = "OK" /\ last.result = <<"">> =>
        /\ userState.present
        /\ userState.data.Roles = SetNull
        /\ userState.data.User_name = last.prior.data.User_name
        /\ userState.data.Password = last.prior.data.Password

C24_Witness ==
    /\ last.op = "UserRead"
    /\ last.calls[1].err = "OK"
    /\ last.result = <<"">>
    /\ ~last.prior.data.Roles.isNull
    /\ userState.data.Roles.isNull


\* C29: a user Read to which the server returned a role list other than the
\* one-element list of "" records exactly that list, element for element and
\* in its order, also when the first of two or more elements is "".
C29_ReadRecordsList ==
    last.op = "UserRead" /\ last.calls[1].err = "OK" /\ last.result # <<"">> /\ last.result # <<>> =>
        /\ userState.present
        /\ userState.data.Roles = SetValue([i \in 1..Len(last.result) |-> StringValue(last.result[i])])


\* C26: after a user Update that ended without error, the roles of the
\* state are the planned role list, element for element and in the planned
\* order.
C26_UpdateRecordsPlannedRoles ==
    last.op = "UserUpdate" /\ last.outcome = "ok" => userState.data.Roles = last.plan.Roles


\* C27: in a role Update and in a user Update the grant call comes before
\* the revoke call, the revoke call names no privilege (role) that is both
\* in the prior and in the planned list, and every such common element the
\* server held before the Update it still holds after it.
C27_GrantBeforeRevoke ==
    [][LET calls == last'.calls
           grantFirst == \A i, j \in 1..Len(calls) :
                            calls[i].fn \in {"GrantPrivileges", "GrantRoles"}
                            /\ calls[j].fn \in {"RevokePrivileges", "RevokeRoles"} => i < j
       IN /\ last'.op = "RoleUpdate" =>
                LET common == SeqToSet(MapSeq(asPrivOfModel, last'.plan.Privileges.elems))
                                \cap SeqToSet(MapSeq(asPrivOfModel, last'.prior.data.Privileges.elems))
                IN /\ grantFirst
                   /\ \A j \in 1..Len(calls) :
                         calls[j].fn = "RevokePrivileges" => SeqToSet(calls[j].arg) \cap common = {}
                   /\ common \cap srvRole.Privileges \subseteq srvRole'.Privileges
          /\ last'.op = "UserUpdate" =>
                LET common == SeqToSet(RoleStrings(last'.plan.Roles))
                                \cap SeqToSet(RoleStrings(last'.prior.data.Roles))
                IN /\ grantFirst
                   /\ \A j \in 1..Len(calls) :
                         calls[j].fn = "RevokeRoles" => SeqToSet(calls[j].arg) \cap common = {}
                   /\ common \cap SeqToSet(srvUser.roles) \subseteq SeqToSet(srvUser'.roles)]_vars

\* a role Update that granted, then revoked, and kept a common privilege
C27_Witness ==
    /\ last.op = "RoleUpdate"
    /\ Len(last.calls) >= 2
    /\ last.calls[1].fn = "GrantPrivileges" /\ last.calls[1].err = "OK"
    /\ last.calls[2].fn = "RevokePrivileges" /\ last.calls[2].err = "OK"
    /\ \E p \in SeqToSet(MapSeq(asPrivOfModel, last.plan.Privileges.elems))
                 \cap SeqToSet(MapSeq(asPrivOfModel, last.prior.data.Privileges.elems)) :
          p \in srvRole.Privileges

\* C28: the quotas that role Create and role Update send are the declared
\* 64-bit values, and after a successful Create the quotas in the state are
\* the ones a Read rebuilds from the server's copy; no declared value
\* (negative, or 2^32 and more) changes in the conversion to 32 bits.
C28_QuotaConversionLossless ==
    /\ last.op \in {"RoleCreate", "RoleUpdate"} =>
          \A i \in 1..Len(last.calls) :
             /\ last.calls[i].fn = "CreateRole" =>
                   /\ Int64FromUint32(last.calls[i].arg.readQuota) = ValueInt64(last.plan.Read_quota)
                   /\ Int64FromUint32(last.calls[i].arg.writeQuota) = ValueInt64(last.plan.Write_quota)
             /\ last.calls[i].fn = "SetQuotas" =>
                   /\ Int64FromUint32(last.calls[i].arg[1]) = ValueInt64(last.plan.Read_quota)
                   /\ Int64FromUint32(last.calls[i].arg[2]) = ValueInt64(last.plan.Write_quota)
    /\ last.op = "RoleCreate" /\ last.outcome = "ok" =>
          /\ roleState.data.Read_quota = Int64Value(Int64FromUint32(srvRole.ReadQuota))
          /\ roleState.data.Write_quota = Int64Value(Int64FromUint32(srvRole.WriteQuota))

\* C25: an Update that succeeds on a server whose copy equals the prior
\* state leaves the server's privilege set, whitelist and quotas (role set
\* and password) equal to the planned ones; a Read after it returns the
\* planned values; an Update whose plan has the values of the state issues
\* no admin call.
C25_Convergence ==
    [][LET privSet(data) == SeqToSet(MapSeq(asPrivOfModel, data.Privileges.elems))
           roleHolds(srv, data) ==
               /\ srv.exists
               /\ srv.Privileges = privSet(data)
               /\ srv.Whitelist = WhitelistStrings(data.White_list)
               /\ Int64FromUint32(srv.ReadQuota) = ValueInt64(data.Read_quota)
               /\ Int64FromUint32(srv.WriteQuota) = ValueInt64(data.Write_quota)
           roleSet(data) == SeqToSet(RoleStrings(data.Roles))
           userHolds(srv, data) ==
               /\ srv.exists
               /\ SeqToSet(srv.roles) = roleSet(data)
               /\ srv.password = ValueString(data.Password)
       IN /\ last'.op = "RoleUpdate" /\ last'.outcome = "ok" /\ roleHolds(srvRole, roleState.data) =>
                roleHolds(srvRole', last'.plan)
          /\ last.op = "RoleUpdate" /\ last.outcome = "ok" /\ roleHolds(srvRole, last.plan)
                /\ last'.op = "RoleRead" /\ last'.calls[1].err = "OK" =>
                roleHolds(srvRole, roleState'.data)
          /\ last'.op = "RoleUpdate" /\ roleHolds(srvRole, roleState.data) /\ roleHolds(srvRole, last'.plan) =>
                last'.calls = <<>>
          /\ last'.op = "UserUpdate" /\ last'.outcome = "ok" /\ userHolds(srvUser, userState.data) =>
                userHolds(srvUser', last'.plan)
          /\ last.op = "UserUpdate" /\ last.outcome = "ok" /\ userHolds(srvUser, last.plan)
                /\ last'.op = "UserRead" /\ last'.calls[1].err = "OK" =>
                userHolds(srvUser, userState'.data)
          /\ last'.op = "UserUpdate" /\ userHolds(srvUser, userState.data) /\ userHolds(srvUser, last'.plan) =>
                last'.calls = <<>>]_vars

\* C30: a Create of a namespace configuration with an xdr_config sends at
\* most two XDR commands; the first is the ship-only-specified-sets command
\* with the declared flag; a second one is sent only after the first
\* succeeded, and is ship-set with the declared include_sets when the flag
\* is true and ignore-set with the declared exclude_sets when it is false;
\* a Create in which no command failed has sent both.
C30_XDRCommandOrder ==
    last.op = "ConfigNamespaceCreate" /\ ~last.plan.XDR_config.isNull =>
       LET xdrConfig == last.plan.XDR_config
           namespace == ValueString(last.plan.Namespace)
           ttlKeys == {"set-config:context=namespace;id=" \o namespace \o ";set=" \o e[1] \o ";default-ttl"
                          : e \in last.plan.Default_set_ttl.elems}
           sent == SelectSeq(last.calls, LAMBDA c : c.fn = "RequestInfo" /\ c.name # "build"
                                                     /\ c.arg[1] \notin ttlKeys)
           prefix == "set-config:context=xdr;dc=" \o ValueString(xdrConfig.Datacenter)
                        \o ";namespace=" \o namespace
           failed(c) == \/ c.err # "OK"
                        \/ \E k \in DOMAIN c.reply : stringsContains(c.reply[k], <<"E", "R", "R", "O", "R">>)
       IN /\ Len(sent) <= 2
          /\ last.outcome \in {"ok", "error"} => Len(sent) = 2
          /\ Len(sent) >= 1 =>
                sent[1].name = prefix \o ";ship-only-specified-sets="
                                  \o (IF xdrConfig.Ship_only_specified_sets.value THEN "true" ELSE "false")
          /\ Len(sent) = 2 =>
                /\ ~failed(sent[1])
                /\ sent[2].name =
                      IF xdrConfig.Ship_only_specified_sets.value
                      THEN prefix \o ";ship-set=" \o stringsJoin(MapSeq(ValueString, xdrConfig.Include_sets), ",")
                      ELSE prefix \o ";ignore-set=" \o stringsJoin(MapSeq(ValueString, xdrConfig.Exclude_sets), ",")

\* a Create that sent ignore-set for the declared exclude_sets after the flag
C30_Witness ==
    /\ last.op = "ConfigNamespaceCreate"
    /\ last.outcome = "ok"
    /\ ~last.plan.XDR_config.isNull
    /\ ~last.plan.XDR_config.Ship_only_specified_sets.value
    /\ \E i, j \in 1..Len(last.calls) :
          /\ i < j
          /\ last.calls[i].name = "set-config:context=xdr;dc=dc1;namespace=aerospike;ship-only-specified-sets=false"
          /\ last.calls[j].name = "set-config:context=xdr;dc=dc1;namespace=aerospike;ignore-set=set3"

====
